---- MODULE Spec2Model ----
(***************************************************************************)
(* Job pipeline of the article generator: the job store (models/orm.py),   *)
(* the five stages (domain/agents.py), the runner (domain/pipeline.py),    *)
(* the validator (services/seo_validator.py) and the link planner          *)
(* (services/link_planner.py).  Text is modelled as TLA+ strings, so that  *)
(* lower-casing, whitespace splitting, substring tests and the heading     *)
(* scan are computed as the Python code computes them.                     *)
(***************************************************************************)
EXTENDS Integers, Sequences, FiniteSets, TLC

VARIABLES job, run, ninv, call

vars == <<job, run, ninv, call>>

(***************************************************************************)
(* Optional values: None is the empty tuple, a present value v is <<v>>.   *)
(***************************************************************************)
None == <<>>

Some(v) == <<v>>

IsNone(o) == o = <<>>

TheVal(o) == o[1]

(***************************************************************************)
(* Python str primitives.                                                  *)
(***************************************************************************)
Chr(s, i) == SubSeq(s, i, i)

IsSpace(c) == c \in {" ", "\n", "\t", "\r"}

UPPER == "ABCDEFGHIJKLMNOPQRSTUVWXYZ"

LOWER == "abcdefghijklmnopqrstuvwxyz"

LowerChar(c) ==
    IF \E i \in 1..Len(UPPER) : Chr(UPPER, i) = c
    THEN Chr(LOWER, CHOOSE i \in 1..Len(UPPER) : Chr(UPPER, i) = c)
    ELSE c

RECURSIVE Lower(_)
\* str.lower(), by halves
Lower(s) ==
    IF Len(s) = 0 THEN ""
    ELSE IF Len(s) = 1 THEN LowerChar(s)
    ELSE LET h == Len(s) \div 2
         IN  Lower(SubSeq(s, 1, h)) \o Lower(SubSeq(s, h + 1, Len(s)))

\* sub in s
Contains(s, sub) ==
    \E i \in 0..(Len(s) - Len(sub)) : SubSeq(s, i + 1, i + Len(sub)) = sub

\* exclusive end of the word that starts at i: the first j >= i that holds
\* whitespace or is past the end of s
WordEnd(s, i) ==
    CHOOSE j \in i..(Len(s) + 1) :
        /\ j = Len(s) + 1 \/ IsSpace(Chr(s, j))
        /\ \A k \in i..(j - 1) : ~IsSpace(Chr(s, k))

RECURSIVE WordsIn(_, _, _)
\* the words of s that start at a position within lo..hi, in order
WordsIn(s, lo, hi) ==
    IF lo > hi THEN <<>>
    ELSE IF lo = hi
    THEN (IF ~IsSpace(Chr(s, lo)) /\ (lo = 1 \/ IsSpace(Chr(s, lo - 1)))
          THEN <<SubSeq(s, lo, WordEnd(s, lo) - 1)>>
          ELSE <<>>)
    ELSE LET mid == (lo + hi) \div 2
         IN  WordsIn(s, lo, mid) \o WordsIn(s, mid + 1, hi)

\* str.split(): the whitespace-delimited tokens, in order
Split(s) == WordsIn(s, 1, Len(s))

RECURSIVE JoinRange(_, _, _, _)
JoinRange(sep, parts, lo, hi) ==
    IF lo > hi THEN ""
    ELSE IF lo = hi THEN parts[lo]
    ELSE LET mid == (lo + hi) \div 2
         IN  JoinRange(sep, parts, lo, mid) \o sep \o JoinRange(sep, parts, mid + 1, hi)

\* sep.join(parts)
Join(sep, parts) == JoinRange(sep, parts, 1, Len(parts))

\* seq[:n]
Take(seq, n) == SubSeq(seq, 1, IF Len(seq) < n THEN Len(seq) ELSE n)

\* set(seq)
ToSet(seq) == {seq[i] : i \in DOMAIN seq}

RECURSIVE FilterRange(_, _, _, _)
FilterRange(seq, keep, lo, hi) ==
    IF lo > hi THEN <<>>
    ELSE IF lo = hi THEN (IF lo \in keep THEN <<seq[lo]>> ELSE <<>>)
    ELSE LET mid == (lo + hi) \div 2
         IN  FilterRange(seq, keep, lo, mid) \o FilterRange(seq, keep, mid + 1, hi)

\* [seq[i] for i in range(len(seq)) if i in keep], keep a set of indices
Filter(seq, keep) == FilterRange(seq, keep, 1, Len(seq))

SetMin(S) == CHOOSE x \in S : \A y \in S : x <= y

SetMax(S) == CHOOSE x \in S : \A y \in S : x >= y

\* int(x * 0.8) and int(x * 1.2) for a non-negative int x (the float products
\* truncate to these integers)
IntTimes08(x) == (4 * x) \div 5

IntTimes12(x) == (6 * x) \div 5

(***************************************************************************)
(* services/seo_validator.py                                               *)
(***************************************************************************)
\* exclusive end of the line that holds position i: the first j >= i that is
\* a newline or past the end of s
LineEnd(s, i) ==
    SetMin({j \in i..(Len(s) + 1) : j = Len(s) + 1 \/ Chr(s, j) = "\n"})

\* first position >= q of s that holds no whitespace (Len(s) + 1 if none)
WsEnd(s, q) ==
    SetMin({j \in q..(Len(s) + 1) : j = Len(s) + 1 \/ ~IsSpace(Chr(s, j))})

\* Where the group (.+) of ^#{level}\s+(.+)$ starts when the pattern is tried
\* at line start p, 0 when it does not match there; w is where the whitespace
\* run after the hashes ends.  \s+ is greedy and also eats newlines; when the
\* whitespace run reaches the end of the text it backtracks to the last
\* whitespace character that is no newline.
GroupStartAt(s, p, level, w) ==
    IF ~(p + level - 1 <= Len(s) /\ \A k \in 0..(level - 1) : Chr(s, p + k) = "#")
    THEN 0
    ELSE IF w = p + level THEN 0
    ELSE IF w <= Len(s) THEN w
    ELSE IF \E j \in (p + level + 1)..Len(s) : Chr(s, j) # "\n"
    THEN SetMax({j \in (p + level + 1)..Len(s) : Chr(s, j) # "\n"})
    ELSE 0

GroupStart(s, p, level) == GroupStartAt(s, p, level, WsEnd(s, p + level))

RECURSIVE HeadingsFrom(_, _, _)
\* one step of re.findall at line start p, g being GroupStart there
HeadingsStep(s, p, level, g) ==
    IF g # 0
    THEN <<SubSeq(s, g, LineEnd(s, g) - 1)>>
             \o HeadingsFrom(s, LineEnd(s, g) + 1, level)
    ELSE HeadingsFrom(s, LineEnd(s, p) + 1, level)

\* re.findall over the text from line start p on
HeadingsFrom(s, p, level) ==
    IF p > Len(s) THEN <<>> ELSE HeadingsStep(s, p, level, GroupStart(s, p, level))

_extract_headings(markdown, level) == HeadingsFrom(markdown, 1, level)

\* the soft match asking for more than half of the keyword's words
WordsMatch_moreThanHalf(keyword_words, heading_words) ==
    2 * Cardinality(keyword_words \cap heading_words) > Cardinality(keyword_words)

\* match_ratio >= 0.5
WordsMatch(keyword_words, heading_words) ==
    2 * Cardinality(keyword_words \cap heading_words) >= Cardinality(keyword_words)

\* whether one heading satisfies the keyword: substring, or at least half of
\* the keyword's words among the heading's words
HeadingMatches(keyword, heading) ==
    \/ Contains(Lower(heading), keyword)
    \/ WordsMatch(ToSet(Split(keyword)), ToSet(Split(Lower(heading))))

_check_keyword_match(keyword, headings) ==
    /\ ToSet(Split(keyword)) # {}
    /\ \E i \in DOMAIN headings : HeadingMatches(keyword, headings[i])

\* the link checks with the internal threshold off by one (<= 3 for < 3)
LinkErrors_atMostThree(article) ==
    (IF Len(article.internal_links) <= 3
     THEN <<"Expected at least 3 internal links, found "
                \o ToString(Len(article.internal_links))>>
     ELSE <<>>)
    \o
    (IF Len(article.external_references) < 2
     THEN <<"Expected at least 2 external references, found "
                \o ToString(Len(article.external_references))>>
     ELSE <<>>)

\* the two link checks (lines 49-54)
LinkErrors(article) ==
    (IF Len(article.internal_links) < 3
     THEN <<"Expected at least 3 internal links, found "
                \o ToString(Len(article.internal_links))>>
     ELSE <<>>)
    \o
    (IF Len(article.external_references) < 2
     THEN <<"Expected at least 2 external references, found "
                \o ToString(Len(article.external_references))>>
     ELSE <<>>)

\* the keyword looked for in the whole body instead of its first 150 words
First150Words_wholeBody(body_markdown) == Join(" ", Split(body_markdown))

\* " ".join(article.body_markdown.split()[:150])
First150Words(body_markdown) == Join(" ", Take(Split(body_markdown), 150))

\* the violation strings validate appends, in the order it appends them, from
\* the values it has computed by then
ErrorList(article, word_count, primary_keyword_lower, first_150_words, h2_headings, h1_count, min_words, max_words) ==
    (IF ~Contains(Lower(article.h1), primary_keyword_lower)
     THEN <<"Primary keyword '" \o article.seo.primary_keyword \o "' not found in H1">>
     ELSE <<>>)
    \o
    (IF ~Contains(Lower(first_150_words), primary_keyword_lower)
     THEN <<"Primary keyword '" \o article.seo.primary_keyword
                \o "' not found in first 150 words">>
     ELSE <<>>)
    \o
    (IF ~_check_keyword_match(primary_keyword_lower, h2_headings) /\ Len(h2_headings) > 0
     THEN <<"Primary keyword '" \o article.seo.primary_keyword
                \o "' not found in any H2 heading (or close match)">>
     ELSE <<>>)
    \o
    (IF word_count < min_words
     THEN <<"Word count " \o ToString(word_count) \o " is below minimum "
                \o ToString(min_words) \o " (80% of target "
                \o ToString(article.seo.word_count_target) \o ")">>
     ELSE IF word_count > max_words
     THEN <<"Word count " \o ToString(word_count) \o " exceeds maximum "
                \o ToString(max_words) \o " (120% of target "
                \o ToString(article.seo.word_count_target) \o ")">>
     ELSE <<>>)
    \o
    (IF h1_count # 1
     THEN <<"Expected exactly 1 H1 heading, found " \o ToString(h1_count)>>
     ELSE <<>>)
    \o
    (IF Len(h2_headings) < 3
     THEN <<"Expected at least 3 H2 headings, found " \o ToString(Len(h2_headings))>>
     ELSE <<>>)
    \o LinkErrors(article)

ValidateErrors(article) ==
    ErrorList(article,
              Len(Split(article.body_markdown)),
              Lower(article.seo.primary_keyword),
              First150Words(article.body_markdown),
              _extract_headings(article.body_markdown, 2),
              Len(_extract_headings(article.body_markdown, 1)),
              IntTimes08(article.seo.word_count_target),
              IntTimes12(article.seo.word_count_target))

\* validate filling the article's empty link lists as well
ValidateArticle_touchesLinks(article) ==
    [article EXCEPT !.seo.estimated_word_count = Len(Split(article.body_markdown)),
                    !.internal_links =
                        IF @ = <<>>
                        THEN <<[anchor_text |-> "page 1", target_slug |-> "page-1"]>>
                        ELSE @]

\* the article as validate leaves it: the measured word count is overwritten
ValidateArticle(article) ==
    [article EXCEPT !.seo.estimated_word_count = Len(Split(article.body_markdown))]

\* SEOValidator.validate: the returned list and the article it mutated
validate(article) ==
    [errors |-> ValidateErrors(article), article |-> ValidateArticle(article)]

(***************************************************************************)
(* services/link_planner.py                                                *)
(***************************************************************************)
INTERNAL_PAGES ==
    << [slug |-> "seo-keyword-research-tools", topic |-> "SEO keyword research tools"],
       [slug |-> "content-optimization-checklist", topic |-> "content optimization checklist"],
       [slug |-> "remote-team-collaboration", topic |-> "remote team collaboration tips"] >>

InternalLinkSuggestion(page) ==
    [anchor_text |-> page.topic, target_slug |-> page.slug]

\* matches_serp or matches_article for one catalog page
MatchesAny(page_keywords, topics, article_text_lower) ==
    \/ \E t \in DOMAIN topics :
           \E keyword \in page_keywords : Contains(Lower(topics[t]), keyword)
    \/ \E keyword \in page_keywords : Contains(article_text_lower, keyword)

PageMatches(page, article, serp_analysis) ==
    MatchesAny(ToSet(Split(Lower(page.topic))), serp_analysis.topics,
               Lower(article.h1 \o " " \o article.body_markdown))

RECURSIVE Backfill_repeats(_, _, _)
\* the pass without the test of line 52: pages already suggested go in again
Backfill_repeats(suggestions, pages, i) ==
    IF i > Len(pages) \/ Len(suggestions) >= 3 THEN suggestions
    ELSE Backfill_repeats(Append(suggestions, InternalLinkSuggestion(pages[i])),
                          pages, i + 1)

RECURSIVE Backfill(_, _, _)
\* one pass of the for loop inside the while loop, from catalog index i on
Backfill(suggestions, pages, i) ==
    IF i > Len(pages) \/ Len(suggestions) >= 3 THEN suggestions
    ELSE IF \E k \in DOMAIN suggestions :
                suggestions[k].target_slug = pages[i].slug
         THEN Backfill(suggestions, pages, i + 1)
         ELSE Backfill(Append(suggestions, InternalLinkSuggestion(pages[i])),
                       pages, i + 1)

RECURSIVE BackfillLoop(_, _)
\* while len(suggestions) < 3 and len(suggestions) < len(pages)
BackfillLoop(suggestions, pages) ==
    IF Len(suggestions) < 3 /\ Len(suggestions) < Len(pages)
    THEN BackfillLoop(Backfill(suggestions, pages, 1), pages)
    ELSE suggestions

PlanInternalLinksOver(pages, article, serp_analysis) ==
    Take(BackfillLoop(
             Filter([i \in DOMAIN pages |-> InternalLinkSuggestion(pages[i])],
                    {i \in DOMAIN pages : PageMatches(pages[i], article, serp_analysis)}),
             pages),
         5)

plan_internal_links(article, serp_analysis) ==
    PlanInternalLinksOver(INTERNAL_PAGES, article, serp_analysis)

authoritative_domains == <<".com", ".org", ".edu">>

IsAuthoritative(r) ==
    \E d \in DOMAIN authoritative_domains : Contains(r.url, authoritative_domains[d])

\* len(result_keywords & all_section_keywords)
Overlap(result, section) ==
    Cardinality(ToSet(Split(Lower(result.title)))
                \cap (ToSet(Split(Lower(section.heading)))
                      \cup ToSet(Split(Lower(section.summary)))))

\* the scan keeping the last of the sections of the largest overlap
BestOf_last(score) ==
    IF \E i \in DOMAIN score : score[i] > 0
    THEN SetMax({i \in DOMAIN score :
                    /\ score[i] > 0
                    /\ \A j \in DOMAIN score : score[j] <= score[i]})
    ELSE IF score # <<>> THEN 1 ELSE 0

\* the scan over the sections given each one's overlap: index of the first
\* section of the largest positive overlap, else the first section, else 0
BestOf(score) ==
    IF \E i \in DOMAIN score : score[i] > 0
    THEN SetMin({i \in DOMAIN score :
                    /\ score[i] > 0
                    /\ \A j \in DOMAIN score : score[j] <= score[i]})
    ELSE IF score # <<>> THEN 1 ELSE 0

BestSection(result, sections) ==
    BestOf([i \in DOMAIN sections |-> Overlap(result, sections[i])])

ReferenceAt(result, outline, b) ==
    [title |-> result.title,
     url |-> result.url,
     suggested_section_slug |->
         IF b # 0 THEN outline.sections[b].slug ELSE "introduction",
     context_reason |->
         IF b # 0
         THEN "Use this when discussing " \o Lower(outline.sections[b].heading)
         ELSE "Useful reference for the topic"]

SelectedReference(result, outline) ==
    ReferenceAt(result, outline, BestSection(result, outline.sections))

BackfillReference(result, outline) ==
    [title |-> result.title,
     url |-> result.url,
     suggested_section_slug |->
         IF outline.sections # <<>> THEN outline.sections[1].slug ELSE "introduction",
     context_reason |-> "Useful reference for the topic"]

\* authoritative_results[:4] if authoritative_results else serp_results[:4]
SelectResults(serp_results, authoritative_results) ==
    IF authoritative_results # <<>> THEN Take(authoritative_results, 4)
    ELSE Take(serp_results, 4)

\* remaining without the cut of line 114
RemainingResults_uncut(serp_results, references) ==
    Take(Filter(serp_results,
                {i \in DOMAIN serp_results :
                    \A k \in DOMAIN references :
                        references[k].url # serp_results[i].url}),
         2)

\* remaining[:2 - len(references)]
RemainingResults(serp_results, references) ==
    Take(Take(Filter(serp_results,
                     {i \in DOMAIN serp_results :
                         \A k \in DOMAIN references :
                             references[k].url # serp_results[i].url}),
              2),
         2 - Len(references))

MapBackfill(extra, outline) ==
    [i \in DOMAIN extra |-> BackfillReference(extra[i], outline)]

\* the backfill of lines 111-123 and the return of line 125
FinishReferences(serp_results, outline, references) ==
    IF Len(references) < 2 /\ Len(serp_results) >= 2
    THEN Take(references
                  \o MapBackfill(RemainingResults(serp_results, references), outline),
              4)
    ELSE IF Len(references) >= 2 THEN Take(references, 4) ELSE references

MapSelected(selected_results, outline) ==
    [i \in DOMAIN selected_results |-> SelectedReference(selected_results[i], outline)]

plan_external_references(serp_results, outline) ==
    IF serp_results = <<>> THEN <<>>
    ELSE FinishReferences(
             serp_results, outline,
             MapSelected(
                 SelectResults(
                     serp_results,
                     Filter(serp_results,
                            {i \in DOMAIN serp_results : IsAuthoritative(serp_results[i])})),
                 outline))

(***************************************************************************)
(* services/serp_client.py and services/llm_client.py: what the clients    *)
(* make of the raw provider outcome.  A call result is                     *)
(* [raises, error, value]; value is meaningful only when raises is FALSE.  *)
(***************************************************************************)
Returned(v) == [raises |-> FALSE, error |-> "", value |-> v]

Raised(msg) == [raises |-> TRUE, error |-> msg, value |-> <<>>]

\* raw: [fails, error, organic_results]
SerpClient_search(raw, limit) ==
    IF raw.fails THEN Raised("SerpAPI search failed: " \o raw.error)
    ELSE LET organic_results == Take(raw.organic_results, limit)
         IN  Returned([idx \in DOMAIN organic_results |->
                          [rank |-> idx,
                           url |-> organic_results[idx].link,
                           title |-> organic_results[idx].title,
                           snippet |-> organic_results[idx].snippet]])

\* raw: [kind, error, content]; kind is "ok", "bad_json" or "api_error"
LLMClient_generate_json(raw) ==
    IF raw.kind = "bad_json"
    THEN Raised("Failed to parse JSON response: " \o raw.error)
    ELSE IF raw.kind = "api_error"
    THEN Raised("OpenAI API call failed: " \o raw.error)
    ELSE Returned(raw.content)

LLMClient_generate_text(raw) ==
    IF raw.kind = "api_error"
    THEN Raised("OpenAI API call failed: " \o raw.error)
    ELSE Returned(raw.content)

(***************************************************************************)
(* domain/agents.py.  A stage result is [ok, ctx, error, log]: the context *)
(* it returns, or the text of the error it raises, and the provider,       *)
(* planner and validator calls it made, in order.                          *)
(***************************************************************************)
StageOk(ctx, log) == [ok |-> TRUE, ctx |-> ctx, error |-> "", log |-> log]

StageRaise(ctx, msg, log) == [ok |-> FALSE, ctx |-> ctx, error |-> msg, log |-> log]

\* the stage without its guard: it searches whatever the context holds
SERPAgent_run_always(ctx, raw) ==
    IF SerpClient_search(raw, 15).raises
    THEN StageRaise(ctx, SerpClient_search(raw, 15).error, <<"search">>)
    ELSE StageOk([ctx EXCEPT !.serp_results = Take(SerpClient_search(raw, 15).value, 10)],
                 <<"search">>)

\* the stage without line 22: all the client returned is kept
SERPAgent_run_keepAll(ctx, raw) ==
    IF ctx.serp_results = <<>>
    THEN IF SerpClient_search(raw, 15).raises
         THEN StageRaise(ctx, SerpClient_search(raw, 15).error, <<"search">>)
         ELSE StageOk([ctx EXCEPT !.serp_results = SerpClient_search(raw, 15).value],
                      <<"search">>)
    ELSE StageOk(ctx, <<>>)

SERPAgent_run(ctx, raw) ==
    IF ctx.serp_results = <<>>
    THEN LET res == SerpClient_search(raw, 15)
         IN  IF res.raises THEN StageRaise(ctx, res.error, <<"search">>)
             ELSE StageOk([ctx EXCEPT !.serp_results = Take(res.value, 10)],
                          <<"search">>)
    ELSE StageOk(ctx, <<>>)

\* SERPAnalysis(**result): primary_keyword is the one required field
SERPAnalysis_valid(result) == ~IsNone(result.primary_keyword)

SERPAnalysis_new(result) ==
    [primary_keyword |-> TheVal(result.primary_keyword),
     secondary_keywords |-> result.secondary_keywords,
     topics |-> result.topics,
     faqs |-> result.faqs]

\* the stage without its guard: it asks for an analysis whatever the context holds
SERPAnalysisAgent_run_always(ctx, raw) ==
    IF LLMClient_generate_json(raw).raises
    THEN StageRaise(ctx, LLMClient_generate_json(raw).error, <<"json:analysis">>)
    ELSE IF ~SERPAnalysis_valid(LLMClient_generate_json(raw).value)
    THEN StageRaise(ctx, "1 validation error for SERPAnalysis", <<"json:analysis">>)
    ELSE StageOk([ctx EXCEPT !.serp_analysis =
                     Some(SERPAnalysis_new(LLMClient_generate_json(raw).value))],
                 <<"json:analysis">>)

SERPAnalysisAgent_run(ctx, raw) ==
    IF IsNone(ctx.serp_analysis)
    THEN LET res == LLMClient_generate_json(raw)
         IN  IF res.raises THEN StageRaise(ctx, res.error, <<"json:analysis">>)
             ELSE IF ~SERPAnalysis_valid(res.value)
             THEN StageRaise(ctx, "1 validation error for SERPAnalysis",
                             <<"json:analysis">>)
             ELSE StageOk([ctx EXCEPT !.serp_analysis = Some(SERPAnalysis_new(res.value))],
                          <<"json:analysis">>)
    ELSE StageOk(ctx, <<>>)

\* Outline(**result): a title, and every heading_level within 1..3
Outline_valid(result) ==
    /\ ~IsNone(result.title)
    /\ \A i \in DOMAIN result.sections : result.sections[i].heading_level \in 1..3

Outline_new(result) ==
    [title |-> TheVal(result.title), sections |-> result.sections]

CountLevel(sections, level) ==
    Cardinality({i \in DOMAIN sections : sections[i].heading_level = level})

\* the stage's two checks (lines 107-114) with a looser level-2 count
OutlineCheck_twoSuffice(outline) ==
    IF CountLevel(outline.sections, 1) > 0
    THEN "Outline sections should not have heading_level=1 (title is the H1), found "
             \o ToString(CountLevel(outline.sections, 1)) \o " H1 sections"
    ELSE IF CountLevel(outline.sections, 2) < 2
    THEN "Outline must have at least 3 H2 sections, found "
             \o ToString(CountLevel(outline.sections, 2))
    ELSE ""

\* the stage's checks without the one on level 1
OutlineCheck_h1Allowed(outline) ==
    IF CountLevel(outline.sections, 2) < 3
    THEN "Outline must have at least 3 H2 sections, found "
             \o ToString(CountLevel(outline.sections, 2))
    ELSE ""

\* the text of the ValueError the stage's checks raise (lines 107-114), ""
\* when the outline passes them
OutlineCheck(outline) ==
    IF CountLevel(outline.sections, 1) > 0
    THEN "Outline sections should not have heading_level=1 (title is the H1), found "
             \o ToString(CountLevel(outline.sections, 1)) \o " H1 sections"
    ELSE IF CountLevel(outline.sections, 2) < 3
    THEN "Outline must have at least 3 H2 sections, found "
             \o ToString(CountLevel(outline.sections, 2))
    ELSE ""

\* lines 105-116, result being what generate_json returned
OutlineReceived(ctx, result) ==
    IF ~Outline_valid(result)
    THEN StageRaise(ctx, "1 validation error for Outline", <<"json:outline">>)
    ELSE IF OutlineCheck(Outline_new(result)) # ""
    THEN StageRaise(ctx, OutlineCheck(Outline_new(result)), <<"json:outline">>)
    ELSE StageOk([ctx EXCEPT !.outline = Some(Outline_new(result))], <<"json:outline">>)

\* lines 103-104, res being the outcome of the generate_json call
OutlineCalled(ctx, res) ==
    IF res.raises THEN StageRaise(ctx, res.error, <<"json:outline">>)
    ELSE OutlineReceived(ctx, res.value)

OutlineAgent_run(ctx, raw) ==
    IF IsNone(ctx.outline)
    THEN IF IsNone(ctx.serp_analysis)
         THEN StageRaise(ctx, "SERP analysis required before generating outline", <<>>)
         ELSE OutlineCalled(ctx, LLMClient_generate_json(raw))
    ELSE StageOk(ctx, <<>>)

\* the article assembled with a link suggestion already in it
DraftArticle_withLink(ctx, body_markdown, seo_result) ==
    [h1 |-> TheVal(ctx.outline).title,
     body_markdown |-> body_markdown,
     seo |-> [title_tag |-> TheVal(seo_result.title_tag),
              meta_description |-> TheVal(seo_result.meta_description),
              primary_keyword |-> TheVal(ctx.serp_analysis).primary_keyword,
              secondary_keywords |-> TheVal(ctx.serp_analysis).secondary_keywords,
              word_count_target |-> ctx.input.target_word_count,
              estimated_word_count |-> Len(Split(body_markdown))],
     internal_links |-> <<InternalLinkSuggestion(INTERNAL_PAGES[1])>>,
     external_references |-> <<>>,
     structured_data |->
         [context |-> "https://schema.org",
          type |-> "BlogPosting",
          headline |-> TheVal(ctx.outline).title,
          description |-> IF IsNone(seo_result.meta_description) THEN ""
                          ELSE TheVal(seo_result.meta_description),
          keywords |-> Join(", ", <<TheVal(ctx.serp_analysis).primary_keyword>>
                                      \o Take(TheVal(ctx.serp_analysis).secondary_keywords, 5))]]

\* the Article the draft stage assembles from the two generation results
DraftArticle(ctx, body_markdown, seo_result) ==
    LET outline == TheVal(ctx.outline)
        serp_analysis == TheVal(ctx.serp_analysis)
    IN  [h1 |-> outline.title,
         body_markdown |-> body_markdown,
         seo |-> [title_tag |-> TheVal(seo_result.title_tag),
                  meta_description |-> TheVal(seo_result.meta_description),
                  primary_keyword |-> serp_analysis.primary_keyword,
                  secondary_keywords |-> serp_analysis.secondary_keywords,
                  word_count_target |-> ctx.input.target_word_count,
                  estimated_word_count |-> Len(Split(body_markdown))],
         internal_links |-> <<>>,
         external_references |-> <<>>,
         structured_data |->
             [context |-> "https://schema.org",
              type |-> "BlogPosting",
              headline |-> outline.title,
              description |-> IF IsNone(seo_result.meta_description) THEN ""
                              ELSE TheVal(seo_result.meta_description),
              keywords |-> Join(", ", <<serp_analysis.primary_keyword>>
                                          \o Take(serp_analysis.secondary_keywords, 5))]]

DraftAgent_run(ctx, raw_text, raw_seo) ==
    IF IsNone(ctx.article)
    THEN IF IsNone(ctx.outline) \/ IsNone(ctx.serp_analysis)
         THEN StageRaise(ctx, "Outline and SERP analysis required before generating draft",
                         <<>>)
         ELSE
         LET text == LLMClient_generate_text(raw_text)
             seo == LLMClient_generate_json(raw_seo)
         IN  IF text.raises THEN StageRaise(ctx, text.error, <<"text:draft">>)
             ELSE IF seo.raises
             THEN StageRaise(ctx, seo.error, <<"text:draft", "json:seo">>)
             ELSE IF IsNone(seo.value.title_tag)
             THEN StageRaise(ctx, "'title_tag'", <<"text:draft", "json:seo">>)
             ELSE IF IsNone(seo.value.meta_description)
             THEN StageRaise(ctx, "'meta_description'", <<"text:draft", "json:seo">>)
             ELSE StageOk([ctx EXCEPT !.article =
                              Some(DraftArticle(ctx, text.value, seo.value))],
                          <<"text:draft", "json:seo">>)
    ELSE StageOk(ctx, <<>>)

SeoValidationMessage(errors) ==
    "SEO validation failed:\n" \o Join("\n", [i \in DOMAIN errors |-> "- " \o errors[i]])

\* the test of line 238 without its second half
PlansExternal_outlineOnly(ctx) == ~IsNone(ctx.outline)

\* whether the stage plans external references (line 238)
PlansExternal(ctx) == ~IsNone(ctx.outline) /\ ctx.serp_results # <<>>

\* the article with the two link lists the stage assigns (lines 233-244)
LinkedArticle(ctx) ==
    [TheVal(ctx.article) EXCEPT
        !.internal_links =
            plan_internal_links(TheVal(ctx.article), TheVal(ctx.serp_analysis)),
        !.external_references =
            IF PlansExternal(ctx)
            THEN plan_external_references(ctx.serp_results, TheVal(ctx.outline))
            ELSE <<>>]

ValidationLog(ctx) ==
    <<"plan_internal_links">>
        \o (IF PlansExternal(ctx) THEN <<"plan_external_references">> ELSE <<>>)
        \o <<"validate">>

\* the stage never raising on the validator's list
ValidationVerdict_lenient(ctx, verdict, log) ==
    StageOk([ctx EXCEPT !.article = Some(verdict.article)], log)

\* the stage planning links and validating on a copy of the article
ValidationVerdict_onCopy(ctx, verdict, log) ==
    IF verdict.errors # <<>>
    THEN StageRaise(ctx, SeoValidationMessage(verdict.errors), log)
    ELSE StageOk(ctx, log)

\* lines 246-252, verdict being what validate returned and did to the article
ValidationVerdict(ctx, verdict, log) ==
    IF verdict.errors # <<>>
    THEN StageRaise([ctx EXCEPT !.article = Some(verdict.article)],
                    SeoValidationMessage(verdict.errors), log)
    ELSE StageOk([ctx EXCEPT !.article = Some(verdict.article)], log)

ValidationAgent_run(ctx) ==
    IF IsNone(ctx.article)
    THEN StageRaise(ctx, "Article required for validation", <<>>)
    ELSE IF IsNone(ctx.serp_analysis)
    THEN StageRaise(ctx, "SERP analysis required for link planning", <<>>)
    ELSE ValidationVerdict(ctx, validate(LinkedArticle(ctx)), ValidationLog(ctx))

(***************************************************************************)
(* models/orm.py: the job row.  A snapshot column holds None or the JSON   *)
(* text of a value; the text of value v is the document [json |-> v].      *)
(***************************************************************************)
DumpJson(v) == [json |-> v]

LoadJson(doc) == doc.json

\* truth value of an Optional[str] column: None is falsy, and so would the
\* empty text be, which no dump produces
Truthy(col) == ~IsNone(col)

create_job(job_input) ==
    [topic |-> job_input.topic,
     target_word_count |-> job_input.target_word_count,
     language |-> job_input.language,
     status |-> "pending",
     serp_results_json |-> None,
     serp_analysis_json |-> None,
     outline_json |-> None,
     article_json |-> None,
     error_message |-> None]

\* every argument after status is optional: None leaves the column alone
\* the write assigning every column, the ones not supplied to None
update_job_status_and_data_assignsAll(j, status, serp_results, serp_analysis, outline, article, error_message) ==
    [j EXCEPT
        !.status = status,
        !.serp_results_json =
            IF IsNone(serp_results) THEN None ELSE Some(DumpJson(TheVal(serp_results))),
        !.serp_analysis_json =
            IF IsNone(serp_analysis) THEN None ELSE Some(DumpJson(TheVal(serp_analysis))),
        !.outline_json =
            IF IsNone(outline) THEN None ELSE Some(DumpJson(TheVal(outline))),
        !.article_json =
            IF IsNone(article) THEN None ELSE Some(DumpJson(TheVal(article))),
        !.error_message = error_message]

\* the write with a check of the row first: a terminal row is left as it is
update_job_status_and_data_guarded(j, status, serp_results, serp_analysis, outline, article, error_message) ==
    IF j.status \in {"completed", "failed"} THEN j
    ELSE [j EXCEPT
        !.status = status,
        !.serp_results_json =
            IF IsNone(serp_results) THEN @ ELSE Some(DumpJson(TheVal(serp_results))),
        !.serp_analysis_json =
            IF IsNone(serp_analysis) THEN @ ELSE Some(DumpJson(TheVal(serp_analysis))),
        !.outline_json =
            IF IsNone(outline) THEN @ ELSE Some(DumpJson(TheVal(outline))),
        !.article_json =
            IF IsNone(article) THEN @ ELSE Some(DumpJson(TheVal(article))),
        !.error_message =
            IF IsNone(error_message) THEN @ ELSE error_message]

update_job_status_and_data(j, status, serp_results, serp_analysis, outline, article, error_message) ==
    [j EXCEPT
        !.status = status,
        !.serp_results_json =
            IF IsNone(serp_results) THEN @ ELSE Some(DumpJson(TheVal(serp_results))),
        !.serp_analysis_json =
            IF IsNone(serp_analysis) THEN @ ELSE Some(DumpJson(TheVal(serp_analysis))),
        !.outline_json =
            IF IsNone(outline) THEN @ ELSE Some(DumpJson(TheVal(outline))),
        !.article_json =
            IF IsNone(article) THEN @ ELSE Some(DumpJson(TheVal(article))),
        !.error_message =
            IF IsNone(error_message) THEN @ ELSE error_message]

(***************************************************************************)
(* domain/pipeline.py                                                      *)
(***************************************************************************)
\* the stages with the outline ahead of the analysis
build_pipeline_swapped ==
    <<"SERPAgent", "OutlineAgent", "SERPAnalysisAgent", "DraftAgent", "ValidationAgent">>

\* the agents in the order process_job runs them
build_pipeline == <<"SERPAgent", "SERPAnalysisAgent", "OutlineAgent", "DraftAgent",
                    "ValidationAgent">>

\* the context built without the article snapshot
Rehydrate_noArticle(j) ==
    [input |-> [topic |-> j.topic,
                target_word_count |-> j.target_word_count,
                language |-> j.language],
     serp_results |->
         IF Truthy(j.serp_results_json) THEN LoadJson(TheVal(j.serp_results_json))
         ELSE <<>>,
     serp_analysis |->
         IF Truthy(j.serp_analysis_json) THEN Some(LoadJson(TheVal(j.serp_analysis_json)))
         ELSE None,
     outline |->
         IF Truthy(j.outline_json) THEN Some(LoadJson(TheVal(j.outline_json)))
         ELSE None,
     article |-> None]

\* the context process_job builds from the row (lines 41-61)
Rehydrate(j) ==
    [input |-> [topic |-> j.topic,
                target_word_count |-> j.target_word_count,
                language |-> j.language],
     serp_results |->
         IF Truthy(j.serp_results_json) THEN LoadJson(TheVal(j.serp_results_json))
         ELSE <<>>,
     serp_analysis |->
         IF Truthy(j.serp_analysis_json) THEN Some(LoadJson(TheVal(j.serp_analysis_json)))
         ELSE None,
     outline |->
         IF Truthy(j.outline_json) THEN Some(LoadJson(TheVal(j.outline_json)))
         ELSE None,
     article |->
         IF Truthy(j.article_json) THEN Some(LoadJson(TheVal(j.article_json)))
         ELSE None]

\* the loop's writes without the outline branch
PersistAfter_noOutline(j, agent, ctx) ==
    IF agent = "SERPAgent" /\ ctx.serp_results # <<>>
    THEN update_job_status_and_data(j, "running", Some(ctx.serp_results), None, None,
                                    None, None)
    ELSE IF agent = "SERPAnalysisAgent" /\ ~IsNone(ctx.serp_analysis)
    THEN update_job_status_and_data(j, "running", None, ctx.serp_analysis, None,
                                    None, None)
    ELSE IF agent = "DraftAgent" /\ ~IsNone(ctx.article)
    THEN update_job_status_and_data(j, "running", None, None, None, ctx.article, None)
    ELSE IF agent = "ValidationAgent" /\ ~IsNone(ctx.article)
    THEN update_job_status_and_data(j, "running", None, None, None, ctx.article, None)
    ELSE j

\* the loop's writes without the branch for the validation stage
PersistAfter_noValidation(j, agent, ctx) ==
    IF agent = "SERPAgent" /\ ctx.serp_results # <<>>
    THEN update_job_status_and_data(j, "running", Some(ctx.serp_results), None, None,
                                    None, None)
    ELSE IF agent = "SERPAnalysisAgent" /\ ~IsNone(ctx.serp_analysis)
    THEN update_job_status_and_data(j, "running", None, ctx.serp_analysis, None,
                                    None, None)
    ELSE IF agent = "OutlineAgent" /\ ~IsNone(ctx.outline)
    THEN update_job_status_and_data(j, "running", None, None, ctx.outline, None, None)
    ELSE IF agent = "DraftAgent" /\ ~IsNone(ctx.article)
    THEN update_job_status_and_data(j, "running", None, None, None, ctx.article, None)
    ELSE j

\* the write that follows agent.run in the loop (lines 73-101): the slot of
\* the agent's own type, when the context holds it
PersistAfter(j, agent, ctx) ==
    IF agent = "SERPAgent" /\ ctx.serp_results # <<>>
    THEN update_job_status_and_data(j, "running", Some(ctx.serp_results), None, None,
                                    None, None)
    ELSE IF agent = "SERPAnalysisAgent" /\ ~IsNone(ctx.serp_analysis)
    THEN update_job_status_and_data(j, "running", None, ctx.serp_analysis, None,
                                    None, None)
    ELSE IF agent = "OutlineAgent" /\ ~IsNone(ctx.outline)
    THEN update_job_status_and_data(j, "running", None, None, ctx.outline, None, None)
    ELSE IF agent = "DraftAgent" /\ ~IsNone(ctx.article)
    THEN update_job_status_and_data(j, "running", None, None, None, ctx.article, None)
    ELSE IF agent = "ValidationAgent" /\ ~IsNone(ctx.article)
    THEN update_job_status_and_data(j, "running", None, None, None, ctx.article, None)
    ELSE j

\* what that write is called in the log, <<>> when the loop writes nothing
PersistLog(agent, ctx) ==
    IF agent = "SERPAgent" /\ ctx.serp_results # <<>> THEN <<"write:serp_results">>
    ELSE IF agent = "SERPAnalysisAgent" /\ ~IsNone(ctx.serp_analysis)
    THEN <<"write:serp_analysis">>
    ELSE IF agent = "OutlineAgent" /\ ~IsNone(ctx.outline) THEN <<"write:outline">>
    ELSE IF agent \in {"DraftAgent", "ValidationAgent"} /\ ~IsNone(ctx.article)
    THEN <<"write:article">>
    ELSE <<>>

\* the except block writing the status alone
FailJob_statusOnly(j, e) ==
    update_job_status_and_data(j, "failed", None, None, None, None, None)

\* the except block recording a fixed text instead of str(e)
FailJob_generic(j, e) ==
    update_job_status_and_data(j, "failed", None, None, None, None,
                               Some("Pipeline failed"))

\* the except block (lines 105-111)
FailJob(j, e) == update_job_status_and_data(j, "failed", None, None, None, None, Some(e))

\* the write after the loop (line 103)
CompleteJob(j, ctx) ==
    update_job_status_and_data(j, "completed", None, None, None, ctx.article, None)

(***************************************************************************)
(* Bounds, and the inputs and provider outcomes the model draws from.      *)
(***************************************************************************)
\* runner invocations per behaviour
MaxInvocations == 2

\* length of the longest raw result list the search provider returns
MaxOrganic == 16

Runners == {"r1", "r2"}

JobInputs ==
    {[topic |-> "seo tips", target_word_count |-> t, language |-> "en"] : t \in {20, 40}}

OrganicTld(i, kind) == IF kind = "mixed" THEN (IF i = 1 THEN ".io" ELSE ".com") ELSE kind

Organic(n, kind) ==
    [i \in 1..n |->
        [link |-> "https://site" \o ToString(i) \o OrganicTld(i, kind) \o "/",
         title |-> IF i % 2 = 1 THEN "SEO tips guide" ELSE "Keyword research tools",
         snippet |-> "snippet " \o ToString(i)]]

SearchRaw ==
    {[fails |-> TRUE, error |-> "quota exceeded", organic_results |-> <<>>]}
    \cup {[fails |-> FALSE, error |-> "", organic_results |-> Organic(c[1], c[2])] :
            c \in {<<0, ".com">>, <<1, ".com">>, <<2, ".com">>, <<2, ".io">>,
                   <<2, "mixed">>, <<MaxOrganic, "mixed">>}}

JsonFailures ==
    {[kind |-> "api_error", error |-> "rate limit", content |-> <<>>],
     [kind |-> "bad_json", error |-> "Expecting value", content |-> <<>>]}

JsonOk(content) == [kind |-> "ok", error |-> "", content |-> content]

AnalysisRaw ==
    JsonFailures \cup
    {JsonOk([primary_keyword |-> Some("seo tips"),
             secondary_keywords |-> <<"seo guide", "ranking">>,
             topics |-> <<"keyword research", "on-page basics">>,
             faqs |-> <<"What is SEO?">>]),
     JsonOk([primary_keyword |-> Some("Remote Work"),
             secondary_keywords |-> <<>>,
             topics |-> <<>>,
             faqs |-> <<>>]),
     JsonOk([primary_keyword |-> None,
             secondary_keywords |-> <<>>,
             topics |-> <<>>,
             faqs |-> <<>>])}

Sec(level, heading, slug, summary) ==
    [heading_level |-> level, heading |-> heading, slug |-> slug, summary |-> summary]

H2a == Sec(2, "Why SEO tips matter", "why-seo-tips-matter", "Reasons to care")

H2b == Sec(2, "Keyword research", "keyword-research", "Finding keywords with tools")

H2c == Sec(2, "Conclusion", "conclusion", "Wrap up")

H3a == Sec(3, "Free tools", "free-tools", "Tools that cost nothing")

H1a == Sec(1, "SEO Tips", "seo-tips", "A second title")

H4a == Sec(4, "Too deep", "too-deep", "Not a level")

OutlineSections ==
    {<<H2a, H2b, H2c>>, <<H2a, H2b, H3a, H2c>>, <<H2a, H2b, H2c, H1a>>,
     <<H2a, H3a, H2b>>, <<H1a, H2a, H2b>>, <<H2a, H2b, H2c, H4a>>, <<>>}

OutlineRaw ==
    JsonFailures \cup
    {JsonOk([title |-> Some("SEO Tips for Beginners"), sections |-> ss]) :
        ss \in OutlineSections}

TextRaw ==
    {[kind |-> "api_error", error |-> "timeout", content |-> ""],
     [kind |-> "ok", error |-> "",
      content |-> "# SEO Tips for Beginners\n\nThese seo tips help.\n\n## Why SEO tips matter\n\nBecause.\n\n## Keyword research\n\n## Conclusion\n"],
     [kind |-> "ok", error |-> "",
      content |-> "# SEO Tips\n\nShort text.\n\n## One\n"]}

SeoRaw ==
    JsonFailures \cup
    {JsonOk([title_tag |-> Some("SEO Tips | Blog"),
             meta_description |-> Some("Learn seo tips.")]),
     JsonOk([title_tag |-> None, meta_description |-> Some("Learn seo tips.")])}

(***************************************************************************)
(* The runner as a state machine.  run[r] is one caller of process_job:    *)
(*   pc      "idle", "start" (past the status check of lines 31-34), the   *)
(*           name of the agent the loop runs next, or "finalize"           *)
(*   seen    the row get_job returned at line 27                           *)
(*   ctx     the ArticleContext                                            *)
(*   result  how the last invocation ended: "none", "returned", "raised"   *)
(*           or "crashed"; error is the text of the exception re-raised    *)
(*   log     the calls and store writes of the invocation, in order        *)
(*   job_id  the id the caller last asked for                              *)
(* A caller also looks a job up through the API (get_article_job); then    *)
(* result is "http:" followed by the status code and error the detail.     *)
(***************************************************************************)
NoCtx ==
    [input |-> [topic |-> "", target_word_count |-> 0, language |-> ""],
     serp_results |-> <<>>, serp_analysis |-> None, outline |-> None, article |-> None]

NoRow == create_job([topic |-> "", target_word_count |-> 0, language |-> ""])

IdleRunner ==
    [pc |-> "idle", seen |-> NoRow, ctx |-> NoCtx, result |-> "none", error |-> "",
     log |-> <<>>, job_id |-> ""]

\* the id create_job gave the one row of the store
JobId == "j1"

\* ids no row of the store has
UnknownIds == {"j2"}

\* the query without its filter on the id: the first row of the table
get_job_first(job_id) == Some(job)

\* orm.get_job: the row of that id, None when the store has none
get_job(job_id) == IF job_id = JobId THEN Some(job) ELSE None

\* routes.get_article_job: 404 when get_job finds nothing
get_article_job(job_id) ==
    IF IsNone(get_job(job_id)) THEN [status_code |-> 404, detail |-> "Job not found"]
    ELSE [status_code |-> 200, detail |-> ""]

\* the early return without the check of line 33
Terminal_onlyCompleted(status) == status = "completed"

\* the status check of lines 31-34
Terminal(status) == status \in {"completed", "failed"}

\* the agent the loop runs after `agent`, "finalize" after the last
NextPc(agent) ==
    LET i == CHOOSE k \in DOMAIN build_pipeline : build_pipeline[k] = agent
    IN  IF i < Len(build_pipeline) THEN build_pipeline[i + 1] ELSE "finalize"

\* call is a service function called on its own, outside any run:
\* [fn, arg, out], arg and out holding the argument and the result once
\* there is one; no such call is made while the runner is modelled
NoCall == [fn |-> "none", arg |-> <<>>, out |-> <<>>]

Init ==
    /\ job \in {create_job(inp) : inp \in JobInputs}
    /\ run = [r \in Runners |-> IdleRunner]
    /\ ninv = 0
    /\ call = NoCall

\* process_job lines 27-34: read the row; return at once when it is terminal
Begin(r) ==
    /\ run[r].pc = "idle"
    /\ \A q \in Runners : run[q].pc = "idle"
    /\ ninv < MaxInvocations
    /\ ninv' = ninv + 1
    /\ run' = [run EXCEPT ![r] =
                  [pc |-> IF Terminal(job.status) THEN "idle" ELSE "start",
                   seen |-> job,
                   ctx |-> NoCtx,
                   result |-> IF Terminal(job.status) THEN "returned" ELSE "none",
                   error |-> "",
                   log |-> <<>>,
                   job_id |-> JobId]]
    /\ UNCHANGED <<job, call>>

\* what process_job makes of an id (lines 27-34) before it writes anything
Lookup(job_id, found) ==
    IF IsNone(found)
    THEN [IdleRunner EXCEPT !.job_id = job_id,
                            !.result = "raised",
                            !.error = "Job " \o job_id \o " not found"]
    ELSE [IdleRunner EXCEPT !.job_id = job_id,
                            !.seen = TheVal(found),
                            !.pc = IF Terminal(TheVal(found).status) THEN "idle"
                                   ELSE "start",
                            !.result = IF Terminal(TheVal(found).status) THEN "returned"
                                       ELSE "none"]

\* process_job called with an id no row has
BeginUnknown(r) ==
    /\ run[r].pc = "idle"
    /\ \A q \in Runners : run[q].pc = "idle"
    /\ \E job_id \in UnknownIds :
           run' = [run EXCEPT ![r] = Lookup(job_id, get_job(job_id))]
    /\ UNCHANGED <<job, ninv, call>>

\* GET /jobs/{job_id}
GetJob(r) ==
    /\ run[r].pc = "idle"
    /\ \A q \in Runners : run[q].pc = "idle"
    /\ \E job_id \in {JobId} \cup UnknownIds :
           run' = [run EXCEPT ![r] =
                      [IdleRunner EXCEPT
                          !.job_id = job_id,
                          !.result = "http:" \o ToString(get_article_job(job_id).status_code),
                          !.error = get_article_job(job_id).detail]]
    /\ UNCHANGED <<job, ninv, call>>

\* the start of a run without the write of line 36
Start_noWrite(r) ==
    /\ run[r].pc = "start"
    /\ job' = job
    /\ run' = [run EXCEPT ![r].pc = build_pipeline[1],
                          ![r].ctx = Rehydrate(job'),
                          ![r].log = <<>>]
    /\ UNCHANGED <<ninv, call>>

\* lines 36-68: mark the job running and rebuild the context from the row
Start(r) ==
    /\ run[r].pc = "start"
    /\ job' = update_job_status_and_data(job, "running", None, None, None, None, None)
    /\ run' = [run EXCEPT ![r].pc = build_pipeline[1],
                          ![r].ctx = Rehydrate(job'),
                          ![r].log = <<"write:running">>]
    /\ UNCHANGED <<ninv, call>>

\* the loop with a second try: a stage that raised is run once more before
\* the job is failed
LoopTurn_retry(r, agent, res) ==
    /\ run[r].pc = agent
    /\ IF res.ok
       THEN /\ job' = PersistAfter(job, agent, res.ctx)
            /\ run' = [run EXCEPT
                          ![r].pc = NextPc(agent),
                          ![r].ctx = res.ctx,
                          ![r].log = @ \o <<"run:" \o agent>> \o res.log
                                       \o PersistLog(agent, res.ctx)]
       ELSE /\ job' = FailJob(job, res.error)
            /\ run' = [run EXCEPT
                          ![r].pc = "idle",
                          ![r].ctx = NoCtx,
                          ![r].result = "raised",
                          ![r].error = res.error,
                          ![r].log = @ \o <<"run:" \o agent>> \o res.log
                                       \o <<"run:" \o agent>> \o res.log
                                       \o <<"write:failed">>]
    /\ UNCHANGED <<ninv, call>>

\* one turn of the loop of lines 70-101 for `agent` with stage result res,
\* or the except block of lines 105-111 when the stage raised
LoopTurn(r, agent, res) ==
    /\ run[r].pc = agent
    /\ IF res.ok
       THEN /\ job' = PersistAfter(job, agent, res.ctx)
            /\ run' = [run EXCEPT
                          ![r].pc = NextPc(agent),
                          ![r].ctx = res.ctx,
                          ![r].log = @ \o <<"run:" \o agent>> \o res.log
                                       \o PersistLog(agent, res.ctx)]
       ELSE /\ job' = FailJob(job, res.error)
            /\ run' = [run EXCEPT
                          ![r].pc = "idle",
                          ![r].ctx = NoCtx,
                          ![r].result = "raised",
                          ![r].error = res.error,
                          ![r].log = @ \o <<"run:" \o agent>> \o res.log
                                       \o <<"write:failed">>]
    /\ UNCHANGED <<ninv, call>>

RunSERP(r) ==
    \E raw \in SearchRaw : LoopTurn(r, "SERPAgent", SERPAgent_run(run[r].ctx, raw))

RunAnalysis(r) ==
    \E raw \in AnalysisRaw :
        LoopTurn(r, "SERPAnalysisAgent", SERPAnalysisAgent_run(run[r].ctx, raw))

RunOutline(r) ==
    \E raw \in OutlineRaw : LoopTurn(r, "OutlineAgent", OutlineAgent_run(run[r].ctx, raw))

RunDraft(r) ==
    \E raw_text \in TextRaw, raw_seo \in SeoRaw :
        LoopTurn(r, "DraftAgent", DraftAgent_run(run[r].ctx, raw_text, raw_seo))

RunValidation(r) ==
    LoopTurn(r, "ValidationAgent", ValidationAgent_run(run[r].ctx))

\* line 103: the loop ended without an exception
Finalize(r) ==
    /\ run[r].pc = "finalize"
    /\ job' = CompleteJob(job, run[r].ctx)
    /\ run' = [run EXCEPT ![r].pc = "idle",
                          ![r].ctx = NoCtx,
                          ![r].result = "returned",
                          ![r].log = @ \o <<"write:completed">>]
    /\ UNCHANGED <<ninv, call>>

\* the process running process_job dies between two steps; the row stays as
\* the last write left it
Crash(r) ==
    /\ run[r].pc # "idle"
    /\ run' = [run EXCEPT ![r].pc = "idle", ![r].ctx = NoCtx, ![r].result = "crashed"]
    /\ UNCHANGED <<job, ninv, call>>

Step(r) ==
    \/ Begin(r)
    \/ BeginUnknown(r)
    \/ GetJob(r)
    \/ Start(r)
    \/ RunSERP(r)
    \/ RunAnalysis(r)
    \/ RunOutline(r)
    \/ RunDraft(r)
    \/ RunValidation(r)
    \/ Finalize(r)
    \/ Crash(r)

\* runner invocations one at a time, all made by caller r1
Next == Step("r1")

Spec == Init /\ [][Next]_vars

(***************************************************************************)
(* Several callers of process_job on the same job id at once.  Nothing in  *)
(* lines 27-36 or in update_job_status_and_data keeps a second caller out: *)
(* each caller reads the row, and each of its writes is one commit on the  *)
(* row as it then is.                                                      *)
(***************************************************************************)
\* process_job lines 27-34 while other callers may be under way; each caller
\* calls once
CBegin(r) ==
    /\ run[r].pc = "idle"
    /\ run[r].result = "none"
    /\ ninv < MaxInvocations
    /\ ninv' = ninv + 1
    /\ run' = [run EXCEPT ![r] = Lookup(JobId, get_job(JobId))]
    /\ UNCHANGED <<job, call>>

\* the stages of the concurrent runs: the search fails or returns two
\* results, the generation provider answers well
CRunSERP(r) ==
    \E raw \in {x \in SearchRaw : x.fails \/ x.organic_results = Organic(2, ".com")} :
        LoopTurn(r, "SERPAgent", SERPAgent_run(run[r].ctx, raw))

CRunAnalysis(r) ==
    \E raw \in {x \in AnalysisRaw :
                    x.kind = "ok" /\ x.content.primary_keyword = Some("seo tips")} :
        LoopTurn(r, "SERPAnalysisAgent", SERPAnalysisAgent_run(run[r].ctx, raw))

CRunOutline(r) ==
    \E raw \in {x \in OutlineRaw : x.kind = "ok" /\ x.content.sections = <<H2a, H2b, H2c>>} :
        LoopTurn(r, "OutlineAgent", OutlineAgent_run(run[r].ctx, raw))

CRunDraft(r) ==
    \E raw_text \in {x \in TextRaw : x.kind = "ok" /\ Len(x.content) > 60},
       raw_seo \in {x \in SeoRaw : x.kind = "ok" /\ ~IsNone(x.content.title_tag)} :
        LoopTurn(r, "DraftAgent", DraftAgent_run(run[r].ctx, raw_text, raw_seo))

CStep(r) ==
    \/ CBegin(r)
    \/ Start(r)
    \/ CRunSERP(r)
    \/ CRunAnalysis(r)
    \/ CRunOutline(r)
    \/ CRunDraft(r)
    \/ RunValidation(r)
    \/ Finalize(r)

CNext == \E r \in Runners : CStep(r)

CSpec == Init /\ [][CNext]_vars

(***************************************************************************)
(* The validator called on its own, as the unit tests call it: an article  *)
(* is drawn, validate is applied to it, and call.out holds what validate   *)
(* returned and the article as validate left it.                           *)
(***************************************************************************)
\* most filler words appended to a body of the word-count family
MaxFiller == 27

RECURSIVE Repeat(_, _)
\* s * n
Repeat(s, n) ==
    IF n = 0 THEN ""
    ELSE IF n = 1 THEN s
    ELSE Repeat(s, n \div 2) \o Repeat(s, n - (n \div 2))

InternalLinksOf(n) ==
    [i \in 1..n |-> [anchor_text |-> "page " \o ToString(i),
                     target_slug |-> "page-" \o ToString(i)]]

ExternalReferencesOf(n) ==
    [i \in 1..n |-> [title |-> "Reference " \o ToString(i),
                     url |-> "https://ref" \o ToString(i) \o ".org/",
                     suggested_section_slug |-> "introduction",
                     context_reason |-> "Useful reference for the topic"]]

ArticleOf(h1, body_markdown, primary_keyword, word_count_target, nint, next) ==
    [h1 |-> h1,
     body_markdown |-> body_markdown,
     seo |-> [title_tag |-> "A title",
              meta_description |-> "A description",
              primary_keyword |-> primary_keyword,
              secondary_keywords |-> <<"ranking">>,
              word_count_target |-> word_count_target,
              estimated_word_count |-> 0],
     internal_links |-> InternalLinksOf(nint),
     external_references |-> ExternalReferencesOf(next),
     structured_data |-> [context |-> "https://schema.org",
                          type |-> "BlogPosting",
                          headline |-> h1,
                          description |-> "A description",
                          keywords |-> primary_keyword]]

\* 20 words, one H1 line, three H2 lines, the keyword in all the places
BodyGood ==
    "# SEO Tips for Beginners\n\nThese seo tips help.\n\n## Why SEO tips matter\n\n## Keyword research\n\n## Conclusion\nEnd.\n"

\* 6 words, no H1 line, two H2 lines, no keyword
BodyBare == "Gardening notes.\n\n## Soil\n\n## Water\n"

\* 21 words, two H1 lines, four H2 lines, the keyword's words apart
BodyTwoH1 ==
    "# Tips\n\n# Again\n\n## SEO basics\n\n## Tips and tricks\n\n## More\n\n## Last\nsome words to fill the rest\n"

\* targets around a multiple of 5, bodies of 15 words and more
BandInputs ==
    {ArticleOf("SEO Tips", BodyBare \o Repeat("word ", k), "seo tips", t, 3, 2) :
        k \in 9..MaxFiller, t \in 20..26}

\* the default target with bodies at and next to the ends of its band
DefaultTargetInputs ==
    {ArticleOf("SEO Tips", Repeat("w ", n), "seo tips", 1500, 3, 2) :
        n \in {1199, 1200, 1800, 1801}}

LinkInputs ==
    {ArticleOf(h1, body, "seo tips", 20, nint, next) :
        h1 \in {"SEO Tips for Beginners", "Gardening"},
        body \in {BodyGood, BodyBare \o Repeat("word ", 14)},
        nint \in 0..5, next \in 0..4}

\* the keyword in, across and after the first 150 words of the body
KeywordBodies ==
    {BodyGood, BodyBare, BodyTwoH1,
     Repeat("word ", 148) \o "SEO\nTips here",
     Repeat("word ", 149) \o "seo tips",
     Repeat("word ", 150) \o "seo tips"}

KeywordInputs ==
    {ArticleOf(h1, body, kw, t, 3, 2) :
        h1 \in {"SEO Tips for Beginners", "Gardening for all", "Seo  tips"},
        body \in KeywordBodies,
        kw \in {"seo tips", "SEO Tips", "seo tips guide", ""},
        t \in {20, 150}}

\* an article in order but for its word count, 20 words against each target
PassingInputs ==
    {ArticleOf("SEO Tips for Beginners", BodyGood, "seo tips", t, 3, 2) : t \in 16..26}

ValidatorInputs ==
    BandInputs \cup DefaultTargetInputs \cup LinkInputs \cup KeywordInputs \cup PassingInputs

VInit ==
    /\ job = NoRow
    /\ run = [r \in Runners |-> IdleRunner]
    /\ ninv = 0
    /\ call \in {[fn |-> "validate", arg |-> <<a>>, out |-> <<>>] : a \in ValidatorInputs}

\* errors = validator.validate(article)
Validate ==
    /\ call.fn = "validate"
    /\ call.out = <<>>
    /\ call' = [call EXCEPT !.out = <<validate(call.arg[1])>>]
    /\ UNCHANGED <<job, run, ninv>>

\* validate called once more on the article the first call left
Revalidate ==
    /\ call.fn = "validate"
    /\ Len(call.out) = 1
    /\ call' = [call EXCEPT !.out = Append(@, validate(call.out[1].article))]
    /\ UNCHANGED <<job, run, ninv>>

VNext == Validate \/ Revalidate

VSpec == VInit /\ [][VNext]_vars

(***************************************************************************)
(* The link planner called on its own: one of its two functions is drawn   *)
(* with its arguments, applied, and call.out holds what it returned.       *)
(***************************************************************************)
\* longest list of search results handed to plan_external_references
MaxResults == 5

\* the shipped catalog and the catalog grown to six pages (line 60 cuts only
\* a list longer than 5); texts and topics that name pages by whole words,
\* by fragments of longer words, and not at all
InternalInputs ==
    {<<pages, ArticleOf(h1, body, "seo tips", 20, 0, 0),
       [primary_keyword |-> "seo tips", secondary_keywords |-> <<>>,
        topics |-> topics, faqs |-> <<>>]>> :
        pages \in {INTERNAL_PAGES,
                   INTERNAL_PAGES \o
                   << [slug |-> "email-marketing-basics", topic |-> "email marketing basics"],
                      [slug |-> "link-building-guide", topic |-> "link building guide"],
                      [slug |-> "page-speed", topic |-> "page speed"] >>},
        h1 \in {"Gardening", "SEO Tips"},
        body \in {"Plants grow in soil.", "Our tools and a CHECKLIST",
                  "Work from remote places", "A teammate helps",
                  "Many researchers agree", "Email and link and page speed tools",
                  "optimization of content by email"},
        topics \in {<<>>, <<"Content marketing">>, <<"Gardening", "Tipsters guide">>}}

\* search results of ranks 1..n with the domains of tlds; title is "cycle"
\* for three titles in turn, or the one title of them all
ResultsOf(tlds, title) ==
    [i \in DOMAIN tlds |->
        [rank |-> i,
         url |-> "https://site" \o ToString(i) \o tlds[i] \o "/",
         title |-> IF title # "cycle" THEN title
                   ELSE <<"SEO tips guide", "Keyword research tools",
                          "Unrelated news">>[((i - 1) % 3) + 1],
         snippet |-> "snippet " \o ToString(i)]]

\* every mix of .com and .io domains over 0..MaxResults results, and three
\* results of which the first and the last have the same url; outlines with
\* no section, with one, and with three of which two may overlap a title
\* equally
ExternalInputs ==
    {<<serp_results, [title |-> "SEO Tips for Beginners", sections |-> ss]>> :
        serp_results \in
            {ResultsOf(tlds, title) :
                tlds \in UNION {[1..n -> {".com", ".io"}] : n \in 0..MaxResults},
                title \in {"cycle", "Best tools"}}
            \cup {[i \in 1..3 |->
                      [rank |-> i,
                       url |-> IF i = 2 THEN "https://site.com/" ELSE "https://site.io/",
                       title |-> "Best tools",
                       snippet |-> "snippet"]]},
        ss \in {<<>>, <<H2a, H2b, H2c>>, <<H3a, H2b, H2c>>, <<H2c, H2b, H3a>>, <<H2c>>}}

LInit ==
    /\ job = NoRow
    /\ run = [r \in Runners |-> IdleRunner]
    /\ ninv = 0
    /\ call \in {[fn |-> "plan_internal_links", arg |-> a, out |-> <<>>] :
                     a \in InternalInputs}
               \cup {[fn |-> "plan_external_references", arg |-> a, out |-> <<>>] :
                        a \in ExternalInputs}

\* suggestions = planner.plan_internal_links(article, serp_analysis)
PlanInternal ==
    /\ call.fn = "plan_internal_links"
    /\ call.out = <<>>
    /\ call' = [call EXCEPT
                   !.out = <<PlanInternalLinksOver(call.arg[1], call.arg[2], call.arg[3])>>]
    /\ UNCHANGED <<job, run, ninv>>

\* references = planner.plan_external_references(serp_results, outline)
PlanExternal ==
    /\ call.fn = "plan_external_references"
    /\ call.out = <<>>
    /\ call' = [call EXCEPT
                   !.out = <<plan_external_references(call.arg[1], call.arg[2])>>]
    /\ UNCHANGED <<job, run, ninv>>

LNext == PlanInternal \/ PlanExternal

LSpec == LInit /\ [][LNext]_vars

(***************************************************************************)
(* Vocabulary of the properties below.                                     *)
(***************************************************************************)
R1 == run["r1"]

Occurs(e, log) == \E i \in DOMAIN log : log[i] = e

ProviderCalls == {"search", "json:analysis", "json:outline", "text:draft", "json:seo"}

\* the calls and writes of an invocation that runs all five stages from an
\* empty row, in the order the stages are built
FullLog ==
    <<"write:running",
      "run:SERPAgent", "search", "write:serp_results",
      "run:SERPAnalysisAgent", "json:analysis", "write:serp_analysis",
      "run:OutlineAgent", "json:outline", "write:outline",
      "run:DraftAgent", "text:draft", "json:seo", "write:article",
      "run:ValidationAgent", "plan_internal_links", "plan_external_references",
      "validate", "write:article", "write:completed">>

RECURSIVE IsSubseq(_, _)
\* a is b with some entries left out
IsSubseq(a, b) ==
    IF a = <<>> THEN TRUE
    ELSE IF b = <<>> THEN FALSE
    ELSE IF Head(a) = Head(b) THEN IsSubseq(Tail(a), Tail(b))
    ELSE IsSubseq(a, Tail(b))

HasAllFour(j) ==
    /\ ~IsNone(j.serp_results_json)
    /\ ~IsNone(j.serp_analysis_json)
    /\ ~IsNone(j.outline_json)
    /\ ~IsNone(j.article_json)

HasOnlySerp(j) ==
    /\ ~IsNone(j.serp_results_json)
    /\ IsNone(j.serp_analysis_json)
    /\ IsNone(j.outline_json)
    /\ IsNone(j.article_json)

SameSnapshots(j, k) ==
    /\ j.serp_results_json = k.serp_results_json
    /\ j.serp_analysis_json = k.serp_analysis_json
    /\ j.outline_json = k.outline_json
    /\ j.article_json = k.article_json

\* the invocation of r1 has ended by returning or raising
Ended == R1.pc = "idle" /\ R1.result \in {"returned", "raised"}

(***************************************************************************)
(* C1.  Invoking the runner on a job whose status is completed or failed   *)
(* is a pure no-op: the invocation returns at once, its log of provider    *)
(* calls, stage runs and store writes is empty, and the row (status, error *)
(* message, the four snapshots) is exactly as it was.                      *)
(***************************************************************************)
C1_TerminalNoOp ==
    [][(job.status \in {"completed", "failed"} /\ ninv' = ninv + 1)
          => /\ job' = job
             /\ run'["r1"].pc = "idle"
             /\ run'["r1"].result = "returned"
             /\ run'["r1"].log = <<>>]_vars

C1_Witness ==
    /\ R1.seen.status = "failed"
    /\ R1.result = "returned"
    /\ R1.log = <<>>
    /\ job = R1.seen

(***************************************************************************)
(* C2.  With invocations one at a time the status only moves along         *)
(* pending -> running -> {completed | failed}: every step either keeps the *)
(* status or takes pending to running or running to completed or failed;   *)
(* it never returns to pending, never leaves completed or failed.          *)
(***************************************************************************)
C2_StatusMoves ==
    [][\/ job'.status = job.status
       \/ job.status = "pending" /\ job'.status = "running"
       \/ job.status = "running" /\ job'.status \in {"completed", "failed"}]_vars

C2_Witness ==
    /\ job.status = "completed"
    /\ R1.seen.status = "running"
    /\ ninv = 2

(***************************************************************************)
(* C3.  Idempotence: an invocation that starts with all four snapshots     *)
(* persisted makes no search call and no generation call; an invocation    *)
(* on a job that is already completed leaves the row as it found it, its   *)
(* status completed.                                                       *)
(***************************************************************************)
C3_Idempotent ==
    /\ HasAllFour(R1.seen) => \A e \in ProviderCalls : ~Occurs(e, R1.log)
    /\ (R1.seen.status = "completed" /\ R1.pc = "idle")
           => job = R1.seen /\ job.status = "completed" /\ R1.result = "returned"

C3_Witness ==
    /\ HasAllFour(R1.seen)
    /\ R1.seen.status = "running"
    /\ Occurs("validate", R1.log)
    /\ job.status = "completed"

(***************************************************************************)
(* C4.  Resumability: an invocation on a job that has only its search      *)
(* results persisted makes no search call; it returns only with the job    *)
(* completed, having run the analysis, outline, draft and validation       *)
(* stages once each in that order; and it fails only with an error of a    *)
(* provider, of the outline checks or of the validator.                    *)
(***************************************************************************)
C4_Resumes ==
    (HasOnlySerp(R1.seen) /\ R1.seen.status \in {"pending", "running"})
        => /\ ~Occurs("search", R1.log)
           /\ (R1.pc = "idle" /\ R1.result = "returned")
                  => /\ job.status = "completed"
                     /\ R1.log =
                            <<"write:running",
                              "run:SERPAgent", "write:serp_results",
                              "run:SERPAnalysisAgent", "json:analysis",
                              "write:serp_analysis",
                              "run:OutlineAgent", "json:outline", "write:outline",
                              "run:DraftAgent", "text:draft", "json:seo",
                              "write:article",
                              "run:ValidationAgent", "plan_internal_links",
                              "plan_external_references", "validate",
                              "write:article", "write:completed">>
           /\ (R1.pc = "idle" /\ R1.result = "raised")
                  => /\ job.status = "failed"
                     /\ ~Contains(R1.error, "required")

C4_Witness ==
    /\ HasOnlySerp(R1.seen)
    /\ R1.seen.status = "running"
    /\ R1.result = "returned"
    /\ job.status = "completed"

(***************************************************************************)
(* C5.  Within one invocation the stages run strictly in the order search, *)
(* analysis, outline, draft, validation: the log of an invocation is the   *)
(* full log with entries left out (ending in the write of failed when a    *)
(* stage raised), a stage is run only after every stage before it has been *)
(* run, and no provider call of a stage is issued before the slot of the   *)
(* stage before it has been written to the store.  So the provider calls   *)
(* come in the order search, analysis JSON, outline JSON, draft text, SEO  *)
(* JSON, with the link planner and the validator last.                     *)
(* The code breaks it after a search that finds nothing: the runner writes *)
(* no search slot (pipeline.py line 73), and the analysis stage, which has *)
(* no precondition on the search results (agents.py lines 31-35), asks the *)
(* generation provider all the same.                                       *)
(***************************************************************************)
C5_StageOrder ==
    /\ \/ IsSubseq(R1.log, FullLog)
       \/ /\ R1.log # <<>>
          /\ R1.log[Len(R1.log)] = "write:failed"
          /\ IsSubseq(SubSeq(R1.log, 1, Len(R1.log) - 1), FullLog)
    /\ Occurs("run:SERPAnalysisAgent", R1.log) => Occurs("run:SERPAgent", R1.log)
    /\ Occurs("run:OutlineAgent", R1.log) => Occurs("run:SERPAnalysisAgent", R1.log)
    /\ Occurs("run:DraftAgent", R1.log) => Occurs("run:OutlineAgent", R1.log)
    /\ Occurs("run:ValidationAgent", R1.log) => Occurs("run:DraftAgent", R1.log)
    /\ Occurs("json:analysis", R1.log) => Occurs("write:serp_results", R1.log)
    /\ Occurs("json:outline", R1.log) => Occurs("write:serp_analysis", R1.log)
    /\ Occurs("text:draft", R1.log) => Occurs("write:outline", R1.log)
    /\ Occurs("validate", R1.log) => Occurs("write:article", R1.log)

(***************************************************************************)
(* C6.  When a stage raises, the step that handles it leaves the job       *)
(* failed with the raised error's text as its error message, re-raises     *)
(* that error to the caller, runs no later stage (the invocation is over,  *)
(* the raising stage being the last one run) and keeps every snapshot      *)
(* persisted before the failure.                                           *)
(***************************************************************************)
C6_FailureRecorded ==
    [][(run["r1"].pc \notin {"idle", "start"} /\ run'["r1"].result = "raised")
          => /\ job'.status = "failed"
             /\ job'.error_message = Some(run'["r1"].error)
             /\ run'["r1"].error # ""
             /\ run'["r1"].pc = "idle"
             /\ SameSnapshots(job', job)
             /\ LET log == run'["r1"].log
                    before == run["r1"].log
                IN  /\ log[Len(log)] = "write:failed"
                    /\ log[Len(before) + 1] = "run:" \o run["r1"].pc
                    /\ \A i \in (Len(before) + 2)..Len(log) :
                          log[i] \notin {"run:" \o a : a \in
                                            {"SERPAgent", "SERPAnalysisAgent",
                                             "OutlineAgent", "DraftAgent",
                                             "ValidationAgent"}}]_vars

C6_Witness ==
    /\ R1.result = "raised"
    /\ job.status = "failed"
    /\ job.error_message = Some(R1.error)
    /\ ~IsNone(job.outline_json)
    /\ IsNone(job.article_json)

(***************************************************************************)
(* C7.  Outline contract: whenever the outline stage asks the provider and *)
(* the outline it gets has a section of level 1 or fewer than 3 sections   *)
(* of level 2, the stage raises: the job is failed with an error message   *)
(* that contains "H1" (a level-1 section) or "H2" (too few level-2         *)
(* sections), the outline snapshot stays null and no draft generation call *)
(* is made.                                                                *)
(***************************************************************************)
C7_OutlineContract ==
    [][\A raw \in OutlineRaw :
          (/\ raw.kind = "ok"
           /\ \A i \in DOMAIN raw.content.sections :
                 raw.content.sections[i].heading_level \in 1..3
           /\ \/ \E i \in DOMAIN raw.content.sections :
                    raw.content.sections[i].heading_level = 1
              \/ Cardinality({i \in DOMAIN raw.content.sections :
                                 raw.content.sections[i].heading_level = 2}) < 3
           /\ IsNone(run["r1"].ctx.outline)
           /\ LoopTurn("r1", "OutlineAgent", OutlineAgent_run(run["r1"].ctx, raw)))
          => /\ job'.status = "failed"
             /\ run'["r1"].result = "raised"
             /\ \/ /\ \E i \in DOMAIN raw.content.sections :
                         raw.content.sections[i].heading_level = 1
                   /\ Contains(TheVal(job'.error_message), "H1")
                \/ /\ Cardinality({i \in DOMAIN raw.content.sections :
                                      raw.content.sections[i].heading_level = 2}) < 3
                   /\ Contains(TheVal(job'.error_message), "H2")
             /\ IsNone(job'.outline_json)
             /\ ~Occurs("text:draft", run'["r1"].log)
             /\ ~Occurs("json:seo", run'["r1"].log)
             /\ run'["r1"].pc = "idle"]_vars

C7_Witness ==
    /\ job.status = "failed"
    /\ job.error_message = Some("Outline must have at least 3 H2 sections, found 2")
    /\ IsNone(job.outline_json)
    /\ R1.result = "raised"

(***************************************************************************)
(* C8.  A job is completed only if, in the run that completed it, the      *)
(* validator was called and found nothing wrong with the final article     *)
(* (the persisted one draws an empty list from it); and a validation step  *)
(* whose validator returns violations leaves the job failed with an error  *)
(* message that contains every one of them.                                *)
(***************************************************************************)
C8_ValidatorDecides ==
    [][/\ (job'.status = "completed" /\ job.status # "completed")
              => /\ Occurs("validate", run'["r1"].log)
                 /\ ~IsNone(job'.article_json)
                 /\ ValidateErrors(LoadJson(TheVal(job'.article_json))) = <<>>
       /\ (run["r1"].pc = "ValidationAgent" /\ run'["r1"].result # "crashed")
              => LET errors == ValidateErrors(LinkedArticle(run["r1"].ctx))
                 IN  errors # <<>>
                        => /\ job'.status = "failed"
                           /\ run'["r1"].result = "raised"
                           /\ \A i \in DOMAIN errors :
                                 Contains(TheVal(job'.error_message), errors[i])]_vars

C8_Witness ==
    /\ job.status = "failed"
    /\ R1.result = "raised"
    /\ Contains(R1.error, "SEO validation failed:")
    /\ Contains(R1.error, "- Word count 7 is below minimum 16 (80% of target 20)")
    /\ Contains(R1.error, "- Expected at least 3 H2 headings, found 1")
    /\ job.error_message = Some(R1.error)

(***************************************************************************)
(* C9.  Whenever the job is completed its article snapshot is there and    *)
(* holds at least 3 internal link suggestions and at least 2 external      *)
(* references.                                                             *)
(***************************************************************************)
C9_CompletedHasLinks ==
    job.status = "completed"
        => /\ ~IsNone(job.article_json)
           /\ Len(LoadJson(TheVal(job.article_json)).internal_links) >= 3
           /\ Len(LoadJson(TheVal(job.article_json)).external_references) >= 2

C9_Witness ==
    /\ job.status = "completed"
    /\ Len(LoadJson(TheVal(job.article_json)).internal_links) = 3
    /\ Len(LoadJson(TheVal(job.article_json)).external_references) = 4

(***************************************************************************)
(* C10.  Whenever the job is completed, all four snapshots (search         *)
(* results, analysis, outline, article) are persisted, whatever the search *)
(* provider returned.                                                      *)
(***************************************************************************)
C10_CompletedHasSnapshots ==
    job.status = "completed" => HasAllFour(job)

C10_Witness ==
    /\ job.status = "completed"
    /\ HasAllFour(job)
    /\ Len(LoadJson(TheVal(job.serp_results_json))) = 2
    /\ R1.log = FullLog

(***************************************************************************)
(* C11.  After each stage whose context slot holds a result, produced by   *)
(* the stage or already there, the runner has written the slot's current   *)
(* value to the store, with status running, before the next stage starts:  *)
(* whenever the loop stands before a stage (or before the completed        *)
(* write), the job is running, every slot of an earlier stage that holds a *)
(* result is in the store with the value the context holds, and the        *)
(* analysis, outline and article slots of earlier stages always hold one.  *)
(* Hence a run that stops there leaves those snapshots persisted.  (The    *)
(* search slot holds no result after a search that found nothing.)         *)
(***************************************************************************)
StageIndex(pc) ==
    IF pc = "finalize" THEN Len(build_pipeline) + 1
    ELSE CHOOSE k \in DOMAIN build_pipeline : build_pipeline[k] = pc

C11_PersistedBeforeNext ==
    R1.pc \in (ToSet(build_pipeline) \cup {"finalize"})
        => /\ job.status = "running"
           /\ (StageIndex(R1.pc) > 1 /\ R1.ctx.serp_results # <<>>)
                  => job.serp_results_json = Some(DumpJson(R1.ctx.serp_results))
           /\ StageIndex(R1.pc) > 2
                  => /\ ~IsNone(R1.ctx.serp_analysis)
                     /\ job.serp_analysis_json
                            = Some(DumpJson(TheVal(R1.ctx.serp_analysis)))
           /\ StageIndex(R1.pc) > 3
                  => /\ ~IsNone(R1.ctx.outline)
                     /\ job.outline_json = Some(DumpJson(TheVal(R1.ctx.outline)))
           /\ StageIndex(R1.pc) > 4
                  => /\ ~IsNone(R1.ctx.article)
                     /\ job.article_json = Some(DumpJson(TheVal(R1.ctx.article)))

\* a resumed run whose search and analysis stages skipped and wrote their
\* slots again, standing before the draft stage
C11_Witness ==
    /\ R1.pc = "DraftAgent"
    /\ R1.log = <<"write:running", "run:SERPAgent", "write:serp_results",
                  "run:SERPAnalysisAgent", "write:serp_analysis",
                  "run:OutlineAgent", "json:outline", "write:outline">>
    /\ job.outline_json = Some(DumpJson(TheVal(R1.ctx.outline)))

(***************************************************************************)
(* C12.  Each of the first four stages, run on a context whose own output  *)
(* field is populated, makes no provider call and returns the context      *)
(* unchanged; and running any of the five stages a second time on the      *)
(* context it has just processed changes nothing further, whatever the     *)
(* providers answer the second time.                                       *)
(* The second half fails for the search stage after a search that found    *)
(* nothing: its field is still empty, so it queries the provider again.    *)
(***************************************************************************)
InRun == R1.pc \in ToSet(build_pipeline)

\* a populated own field makes the stage a no-op
SkipsWhenPopulated(ctx) ==
    /\ ctx.serp_results # <<>>
           => \A raw \in SearchRaw : SERPAgent_run(ctx, raw) = StageOk(ctx, <<>>)
    /\ ~IsNone(ctx.serp_analysis)
           => \A raw \in AnalysisRaw : SERPAnalysisAgent_run(ctx, raw) = StageOk(ctx, <<>>)
    /\ ~IsNone(ctx.outline)
           => \A raw \in OutlineRaw : OutlineAgent_run(ctx, raw) = StageOk(ctx, <<>>)
    /\ ~IsNone(ctx.article)
           => \A raw_text \in TextRaw, raw_seo \in SeoRaw :
                  DraftAgent_run(ctx, raw_text, raw_seo) = StageOk(ctx, <<>>)

\* the search stage run again on the context it returned
SearchTwice(ctx, nonEmptyOnly) ==
    \A raw \in SearchRaw, again \in SearchRaw :
        (/\ SERPAgent_run(ctx, raw).ok
         /\ nonEmptyOnly => SERPAgent_run(ctx, raw).ctx.serp_results # <<>>)
            => SERPAgent_run(SERPAgent_run(ctx, raw).ctx, again).ctx
                   = SERPAgent_run(ctx, raw).ctx

\* the other four stages run again on the context they returned
OthersTwice(ctx, pc) ==
    /\ pc = "SERPAnalysisAgent"
           => \A raw \in AnalysisRaw, again \in AnalysisRaw :
                  SERPAnalysisAgent_run(ctx, raw).ok
                      => SERPAnalysisAgent_run(SERPAnalysisAgent_run(ctx, raw).ctx, again)
                             = StageOk(SERPAnalysisAgent_run(ctx, raw).ctx, <<>>)
    /\ pc = "OutlineAgent"
           => \A raw \in OutlineRaw, again \in OutlineRaw :
                  OutlineAgent_run(ctx, raw).ok
                      => OutlineAgent_run(OutlineAgent_run(ctx, raw).ctx, again)
                             = StageOk(OutlineAgent_run(ctx, raw).ctx, <<>>)
    /\ pc = "DraftAgent"
           => \A raw_text \in TextRaw, raw_seo \in SeoRaw, again \in SeoRaw :
                  DraftAgent_run(ctx, raw_text, raw_seo).ok
                      => DraftAgent_run(DraftAgent_run(ctx, raw_text, raw_seo).ctx,
                                        raw_text, again)
                             = StageOk(DraftAgent_run(ctx, raw_text, raw_seo).ctx, <<>>)
    /\ pc = "ValidationAgent"
           => ValidationAgent_run(ValidationAgent_run(ctx).ctx).ctx
                  = ValidationAgent_run(ctx).ctx

\* the claim as stated
C12_StagesIdempotent ==
    InRun => /\ SkipsWhenPopulated(R1.ctx)
             /\ R1.pc = "SERPAgent" => SearchTwice(R1.ctx, FALSE)
             /\ OthersTwice(R1.ctx, R1.pc)

\* C12 as amended: the same, the search stage run a second time only after
\* a search that returned at least one result
C12_StagesIdempotentAmended ==
    InRun => /\ SkipsWhenPopulated(R1.ctx)
             /\ R1.pc = "SERPAgent" => SearchTwice(R1.ctx, TRUE)
             /\ OthersTwice(R1.ctx, R1.pc)

\* the outline stage is handed the context the analysis stage has just
\* filled, on which the analysis stage is a no-op
C12_Witness ==
    /\ R1.pc = "OutlineAgent"
    /\ R1.log[Len(R1.log)] = "write:serp_analysis"
    /\ Occurs("json:analysis", R1.log)
    /\ \A raw \in AnalysisRaw : SERPAnalysisAgent_run(R1.ctx, raw) = StageOk(R1.ctx, <<>>)

(***************************************************************************)
(* C13.  Not found: looking up a job id that no row has, through get-job   *)
(* or by invoking the runner on it, yields a not-found error (404 with     *)
(* "Job not found"; ValueError "Job <id> not found") and changes nothing:  *)
(* the row of the store is as it was, the caller made no store write, no   *)
(* provider call and ran no stage, and it is not inside a run.             *)
(***************************************************************************)
C13_NotFound ==
    [][(run'["r1"] # run["r1"] /\ run'["r1"].job_id \in UnknownIds)
          => /\ job' = job
             /\ run'["r1"].pc = "idle"
             /\ run'["r1"].log = <<>>
             /\ \/ /\ run'["r1"].result = "raised"
                   /\ run'["r1"].error = "Job " \o run'["r1"].job_id \o " not found"
                \/ /\ run'["r1"].result = "http:404"
                   /\ run'["r1"].error = "Job not found"]_vars

\* the runner invoked on an unknown id while the stored job is half done
C13_Witness ==
    /\ R1.job_id \in UnknownIds
    /\ R1.result = "raised"
    /\ R1.error = "Job j2 not found"
    /\ job.status = "running"
    /\ ~IsNone(job.serp_analysis_json)

(***************************************************************************)
(* Vocabulary of the properties of the validator called on its own.        *)
(***************************************************************************)
Validated == call.fn = "validate" /\ call.out # <<>>

\* the article handed to validate, and the list validate returned
VArticle == call.arg[1]

VErrors == call.out[1].errors

HasError(errors, fragment) == \E i \in DOMAIN errors : Contains(errors[i], fragment)

\* number of whitespace-delimited tokens of the body
VWords == Len(Split(VArticle.body_markdown))

VTarget == VArticle.seo.word_count_target

(***************************************************************************)
(* C14.  For every positive target and every body the validator reports a  *)
(* word-count violation exactly when the body's token count n lies outside *)
(* the band [0.8 x target, 1.2 x target], that is when 5n < 4 x target or   *)
(* 5n > 6 x target (target 1500: 1199 and 1801 are violations, 1200 and    *)
(* 1800 are not), and the message says which bound was missed.             *)
(* The code compares with int(0.8 x target): for target 21 a body of 16    *)
(* words, below 16.8, draws no violation.                                  *)
(***************************************************************************)
C14_WordCountBand ==
    Validated
        => /\ HasError(VErrors, "is below minimum") <=> 5 * VWords < 4 * VTarget
           /\ HasError(VErrors, "exceeds maximum") <=> 5 * VWords > 6 * VTarget
           /\ HasError(VErrors, "Word count")
                  <=> (5 * VWords < 4 * VTarget \/ 5 * VWords > 6 * VTarget)

(***************************************************************************)
(* C15.  Link thresholds: the validator reports an internal-links          *)
(* violation exactly when the article has fewer than 3 internal link       *)
(* suggestions, and an external-references violation exactly when it has   *)
(* fewer than 2 external references, whatever the other fields are.        *)
(***************************************************************************)
C15_LinkThresholds ==
    Validated
        => /\ HasError(VErrors, "internal links") <=> Len(VArticle.internal_links) < 3
           /\ HasError(VErrors, "external references")
                  <=> Len(VArticle.external_references) < 2

\* all else equal: 2 internal links are the one violation of this article
C15_Witness ==
    /\ Validated
    /\ Len(VArticle.internal_links) = 2
    /\ Len(VArticle.external_references) = 2
    /\ VErrors = <<"Expected at least 3 internal links, found 2">>

(***************************************************************************)
(* C16.  The validator returns the empty list exactly when all eight       *)
(* constraints hold: keyword in the H1, keyword in the first 150 words,    *)
(* keyword in a level-2 heading, token count inside                        *)
(* [0.8 x target, 1.2 x target], exactly one level-1 heading line, at      *)
(* least 3 level-2 heading lines, at least 3 internal links, at least 2    *)
(* external references; and the list never has more than 8 entries.        *)
(* The code's band starts at int(0.8 x target): an article in order with   *)
(* 20 words against target 26 (band from 20.8) gets the empty list.        *)
(***************************************************************************)
C16_EmptyIffAllHold ==
    Validated
        => /\ VErrors = <<>>
                  <=> /\ Contains(Lower(VArticle.h1), Lower(VArticle.seo.primary_keyword))
                      /\ Contains(Lower(Join(" ", Take(Split(VArticle.body_markdown), 150))),
                                  Lower(VArticle.seo.primary_keyword))
                      /\ _check_keyword_match(Lower(VArticle.seo.primary_keyword),
                                              _extract_headings(VArticle.body_markdown, 2))
                      /\ 5 * VWords >= 4 * VTarget
                      /\ 5 * VWords <= 6 * VTarget
                      /\ Len(_extract_headings(VArticle.body_markdown, 1)) = 1
                      /\ Len(_extract_headings(VArticle.body_markdown, 2)) >= 3
                      /\ Len(VArticle.internal_links) >= 3
                      /\ Len(VArticle.external_references) >= 2
           /\ Len(VErrors) <= 8

(***************************************************************************)
(* C17.  Whenever the primary keyword is not a case-insensitive substring  *)
(* of the article's H1 text the validator reports the H1 violation, and    *)
(* whenever it is not a case-insensitive substring of the first 150        *)
(* whitespace-delimited words of the body, joined by single spaces, the    *)
(* validator reports the first-150-words violation; a keyword that occurs  *)
(* only after word 150 does not satisfy the second check.                  *)
(***************************************************************************)
C17_KeywordPlacement ==
    Validated
        => /\ ~Contains(Lower(VArticle.h1), Lower(VArticle.seo.primary_keyword))
                  => HasError(VErrors, "not found in H1")
           /\ ~Contains(Lower(Join(" ", SubSeq(Split(VArticle.body_markdown), 1,
                                               IF VWords < 150 THEN VWords ELSE 150))),
                        Lower(VArticle.seo.primary_keyword))
                  => HasError(VErrors, "not found in first 150 words")

\* the keyword is in the body as words 151 and 152 only, and not in the H1
C17_Witness ==
    /\ Validated
    /\ VWords = 152
    /\ Contains(Lower(VArticle.body_markdown), Lower(VArticle.seo.primary_keyword))
    /\ ~Contains(Lower(VArticle.h1), Lower(VArticle.seo.primary_keyword))
    /\ HasError(VErrors, "not found in H1")
    /\ HasError(VErrors, "not found in first 150 words")

(***************************************************************************)
(* C18.  The analysis stage requires search results to exist: whenever it  *)
(* runs with no analysis in the context and no search results (the search  *)
(* provider returned an empty list), it does not call the generation       *)
(* provider, and the run fails instead of producing an analysis.           *)
(* The code has no such check: SERPAnalysisAgent.run goes to generate_json *)
(* with an empty result text and the run carries on.                       *)
(***************************************************************************)
C18_AnalysisNeedsResults ==
    [][(/\ R1.pc = "SERPAnalysisAgent"
        /\ IsNone(R1.ctx.serp_analysis)
        /\ R1.ctx.serp_results = <<>>
        /\ R1'.result # "crashed")
           => /\ ~Occurs("json:analysis", R1'.log)
              /\ R1'.result = "raised"
              /\ job'.status = "failed"
              /\ IsNone(job'.serp_analysis_json)]_vars

(***************************************************************************)
(* C19.  Precondition errors are unreachable inside a runner invocation:   *)
(* whatever snapshots earlier invocations left in the row and whatever the *)
(* providers answer, the outline stage is never entered without an         *)
(* analysis, the draft stage never without outline and analysis, the       *)
(* validation stage never without article and analysis, and none of the    *)
(* "required" errors of the stages is ever the failure the run raises or   *)
(* the row records.                                                        *)
(***************************************************************************)
PreconditionErrors ==
    {"SERP analysis required before generating outline",
     "Outline and SERP analysis required before generating draft",
     "Article required for validation",
     "SERP analysis required for link planning"}

C19_PreconditionsUnreachable ==
    /\ R1.pc = "OutlineAgent" => ~IsNone(R1.ctx.serp_analysis)
    /\ R1.pc = "DraftAgent" => ~IsNone(R1.ctx.outline) /\ ~IsNone(R1.ctx.serp_analysis)
    /\ R1.pc = "ValidationAgent"
           => ~IsNone(R1.ctx.article) /\ ~IsNone(R1.ctx.serp_analysis)
    /\ R1.error \notin PreconditionErrors
    /\ ~IsNone(job.error_message) => TheVal(job.error_message) \notin PreconditionErrors

\* a second invocation, after a crash, has come to the validation stage on
\* the snapshots of the first alone, without a provider call
C19_Witness ==
    /\ R1.pc = "ValidationAgent"
    /\ ninv = 2
    /\ \A e \in ProviderCalls : ~Occurs(e, R1.log)
    /\ ~IsNone(R1.ctx.article)
    /\ ~IsNone(R1.ctx.outline)
    /\ ~IsNone(R1.ctx.serp_analysis)

(***************************************************************************)
(* C20.  There is no retry: in one runner invocation the search provider   *)
(* is called at most once, free-text generation at most once, structured   *)
(* generation at most three times (once each for analysis, outline and SEO *)
(* metadata); and a provider failure or a content rejection is followed by *)
(* no other provider call: the write of the failure is the last entry of   *)
(* the invocation, and a failed free-text generation is not followed by    *)
(* the request for the SEO metadata.                                       *)
(***************************************************************************)
Count(e, log) == Cardinality({i \in DOMAIN log : log[i] = e})

C20_NoRetry ==
    /\ Count("search", R1.log) <= 1
    /\ Count("text:draft", R1.log) <= 1
    /\ Count("json:analysis", R1.log) <= 1
    /\ Count("json:outline", R1.log) <= 1
    /\ Count("json:seo", R1.log) <= 1
    /\ Cardinality({i \in DOMAIN R1.log :
                        R1.log[i] \in {"json:analysis", "json:outline", "json:seo"}}) <= 3
    /\ \A i \in DOMAIN R1.log : R1.log[i] = "write:failed" => i = Len(R1.log)
    /\ R1.result = "raised" /\ R1.job_id = JobId
           => /\ R1.pc = "idle"
              /\ R1.log[Len(R1.log)] = "write:failed"
    /\ R1.error = "OpenAI API call failed: timeout"
           => /\ R1.log[Len(R1.log) - 1] = "text:draft"
              /\ ~Occurs("json:seo", R1.log)

\* the free-text generation failed after one call of each earlier provider
C20_Witness ==
    /\ R1.result = "raised"
    /\ R1.error = "OpenAI API call failed: timeout"
    /\ Count("search", R1.log) = 1
    /\ Count("json:analysis", R1.log) = 1
    /\ Count("json:outline", R1.log) = 1
    /\ Count("text:draft", R1.log) = 1
    /\ ~Occurs("json:seo", R1.log)
    /\ R1.log[Len(R1.log)] = "write:failed"

(***************************************************************************)
(* C21.  Concurrent runners on the same job id are not coordinated: every  *)
(* write of a runner sets the status that runner is at (running at the     *)
(* start and after each stage, failed with its error when its stage        *)
(* raised, completed at its end) whatever status the row holds, a terminal *)
(* one included.  So two invocations started on the same pending job both  *)
(* pass the terminal-status check and both call the search provider, and   *)
(* the slower one overwrites the failed status the other recorded with     *)
(* running and then completed.                                             *)
(***************************************************************************)
C21_WritesUncoordinated ==
    [][\A r \in Runners :
          /\ (run[r].pc = "start" /\ run'[r].pc # "start") => job'.status = "running"
          /\ (/\ run[r].pc \in ToSet(build_pipeline)
              /\ run'[r].pc # run[r].pc
              /\ run'[r].pc # "idle") => job'.status = "running"
          /\ (/\ run[r].pc \in ToSet(build_pipeline)
              /\ run'[r].pc = "idle") => /\ job'.status = "failed"
                                        /\ job'.error_message = Some(run'[r].error)
          /\ (run[r].pc = "finalize" /\ run'[r].pc = "idle") => job'.status = "completed"]_vars

\* both runners called the search provider; r1's call failed and r1 recorded
\* failed; r2 went on and the row now says completed, the error still in it
C21_Witness ==
    /\ run["r1"].result = "raised"
    /\ run["r1"].error = "SerpAPI search failed: quota exceeded"
    /\ run["r2"].result = "returned"
    /\ Occurs("search", run["r1"].log)
    /\ Occurs("search", run["r2"].log)
    /\ Occurs("write:running", run["r1"].log)
    /\ Occurs("write:completed", run["r2"].log)
    /\ job.status = "completed"
    /\ job.error_message = Some("SerpAPI search failed: quota exceeded")

(***************************************************************************)
(* C22.  The search stage queries the provider only when the context holds *)
(* no search results, and keeps the first 10 of what the provider returned *)
(* in provider order: every persisted search-results snapshot has between  *)
(* 1 and 10 entries, entry i has rank i, and the entries are the first of  *)
(* one provider answer, in its order.                                      *)
(***************************************************************************)
SnapshotOf(organic_results) ==
    [i \in 1..(IF Len(organic_results) < 10 THEN Len(organic_results) ELSE 10) |->
        [rank |-> i,
         url |-> organic_results[i].link,
         title |-> organic_results[i].title,
         snippet |-> organic_results[i].snippet]]

C22_SearchSnapshot ==
    /\ ~IsNone(job.serp_results_json)
           => /\ Len(LoadJson(TheVal(job.serp_results_json))) \in 1..10
              /\ \A i \in DOMAIN LoadJson(TheVal(job.serp_results_json)) :
                     LoadJson(TheVal(job.serp_results_json))[i].rank = i
              /\ \E raw \in SearchRaw :
                     /\ ~raw.fails
                     /\ LoadJson(TheVal(job.serp_results_json))
                            = SnapshotOf(raw.organic_results)
    /\ Occurs("search", R1.log) => IsNone(R1.seen.serp_results_json)

\* the provider returned more than 15 results and 10 of them are in the row
C22_Witness ==
    /\ ~IsNone(job.serp_results_json)
    /\ Occurs("search", R1.log)
    /\ Len(LoadJson(TheVal(job.serp_results_json))) = 10
    /\ LoadJson(TheVal(job.serp_results_json))[10].rank = 10
    /\ LoadJson(TheVal(job.serp_results_json))[10].url = "https://site10.com/"
    /\ MaxOrganic > 15

(***************************************************************************)
(* C23.  Every outline snapshot ever persisted on a job, and so every      *)
(* outline a run holds in its context, rehydrated ones included, has no    *)
(* section of heading level 1 and at least 3 sections of heading level 2.  *)
(***************************************************************************)
SectionsInContract(sections) ==
    /\ \A i \in DOMAIN sections : sections[i].heading_level # 1
    /\ Cardinality({i \in DOMAIN sections : sections[i].heading_level = 2}) >= 3

C23_OutlineSnapshot ==
    /\ ~IsNone(job.outline_json)
           => SectionsInContract(LoadJson(TheVal(job.outline_json)).sections)
    /\ ~IsNone(R1.ctx.outline) => SectionsInContract(TheVal(R1.ctx.outline).sections)

\* a second invocation holds the outline the first one persisted, which has
\* a level-3 section among its four
C23_Witness ==
    /\ ninv = 2
    /\ InRun
    /\ ~Occurs("json:outline", R1.log)
    /\ ~IsNone(R1.ctx.outline)
    /\ ~IsNone(job.outline_json)
    /\ TheVal(R1.ctx.outline) = LoadJson(TheVal(job.outline_json))
    /\ TheVal(R1.ctx.outline).sections = <<H2a, H2b, H3a, H2c>>

(***************************************************************************)
(* C24.  The validation stage plans external references exactly when the   *)
(* context holds both an outline and non-empty search results, and then    *)
(* the article gets what the planner returned; otherwise it sets the       *)
(* article's external references to the empty list and raises no           *)
(* precondition error: the stage goes on to the validator, and the only    *)
(* failure is the validator's verdict (which counts 0 references).         *)
(***************************************************************************)
C24_ExternalOnlyWithResults ==
    [][(R1.pc = "ValidationAgent" /\ R1'.result # "crashed")
          => /\ Occurs("validate", R1'.log)
             /\ R1'.error \notin PreconditionErrors
             /\ Occurs("plan_external_references", R1'.log)
                    <=> (~IsNone(R1.ctx.outline) /\ R1.ctx.serp_results # <<>>)
             /\ (~IsNone(R1.ctx.outline) /\ R1.ctx.serp_results # <<>> /\ R1'.pc = "finalize")
                    => TheVal(R1'.ctx.article).external_references
                           = plan_external_references(R1.ctx.serp_results,
                                                      TheVal(R1.ctx.outline))
             /\ (IsNone(R1.ctx.outline) \/ R1.ctx.serp_results = <<>>)
                    => /\ R1'.result = "raised"
                       /\ Contains(R1'.error, "SEO validation failed:")
                       /\ Contains(R1'.error,
                                   "Expected at least 2 external references, found 0")]_vars

\* the stage ran on a context without search results: the planner of
\* external references was not called, the validator was
C24_Witness ==
    /\ R1.result = "raised"
    /\ Occurs("run:ValidationAgent", R1.log)
    /\ Occurs("plan_internal_links", R1.log)
    /\ ~Occurs("plan_external_references", R1.log)
    /\ Occurs("validate", R1.log)
    /\ Contains(R1.error, "Expected at least 2 external references, found 0")
    /\ IsNone(job.serp_results_json)

(***************************************************************************)
(* Vocabulary of the properties of the link planner called on its own.     *)
(***************************************************************************)
PlannedInternal == call.fn = "plan_internal_links" /\ call.out # <<>>

PlannedExternal == call.fn = "plan_external_references" /\ call.out # <<>>

\* the elements of a set of numbers in increasing order
Ascending(S) ==
    CHOOSE f \in [1..Cardinality(S) -> S] : \A i, j \in 1..Cardinality(S) : i < j => f[i] < f[j]

\* catalog indices of the pages that match, and of those that do not
MatchedIdx == {i \in DOMAIN call.arg[1] : PageMatches(call.arg[1][i], call.arg[2], call.arg[3])}

UnmatchedIdx == DOMAIN call.arg[1] \ MatchedIdx

(***************************************************************************)
(* C25.  plan_internal_links returns, for every article and analysis and a *)
(* catalog of at least 3 pages, at least 3 and at most 5 suggestions with  *)
(* pairwise distinct target slugs: all matched pages in catalog order,     *)
(* then, when fewer than 3 matched, unmatched pages in catalog order up to *)
(* 3 in all, the whole cut to 5; and one pass of the backfill ends the     *)
(* loop.                                                                   *)
(***************************************************************************)
C25_InternalLinks ==
    PlannedInternal
        => /\ Len(call.out[1]) >= 3
           /\ Len(call.out[1]) <= 5
           /\ \A i, j \in DOMAIN call.out[1] :
                  i # j => call.out[1][i].target_slug # call.out[1][j].target_slug
           /\ LET order == Ascending(MatchedIdx)
                            \o (IF Cardinality(MatchedIdx) >= 3 THEN <<>>
                                ELSE SubSeq(Ascending(UnmatchedIdx), 1,
                                            3 - Cardinality(MatchedIdx)))
              IN  /\ Len(call.out[1]) = (IF Len(order) > 5 THEN 5 ELSE Len(order))
                  /\ \A k \in DOMAIN call.out[1] :
                         /\ call.out[1][k].target_slug = call.arg[1][order[k]].slug
                         /\ call.out[1][k].anchor_text = call.arg[1][order[k]].topic
           /\ LET first == Backfill([k \in 1..Cardinality(MatchedIdx) |->
                                        InternalLinkSuggestion(
                                            call.arg[1][Ascending(MatchedIdx)[k]])],
                                    call.arg[1], 1)
              IN  Len(first) >= 3 \/ Len(first) >= Len(call.arg[1])

\* the shipped catalog, its third page the only match: it comes first and
\* the other two follow in catalog order
C25_Witness ==
    /\ PlannedInternal
    /\ call.arg[1] = INTERNAL_PAGES
    /\ MatchedIdx = {3}
    /\ call.out[1] = <<InternalLinkSuggestion(INTERNAL_PAGES[3]),
                       InternalLinkSuggestion(INTERNAL_PAGES[1]),
                       InternalLinkSuggestion(INTERNAL_PAGES[2])>>

(***************************************************************************)
(* C26.  plan_internal_links treats a catalog page as matched only by      *)
(* whole-word containment: a word of the page topic counts only if it is a *)
(* complete whitespace-delimited word of an analysis topic or of the       *)
(* lower-cased H1 + body text, so the suggestions are the pages matched in *)
(* that sense, in catalog order, then the backfill.                        *)
(* The code tests `keyword in text`, a substring test: "team" is found in  *)
(* "teammate" and the page of the remote team comes first.                 *)
(***************************************************************************)
WholeWordIdx ==
    {i \in DOMAIN call.arg[1] :
        \E keyword \in ToSet(Split(Lower(call.arg[1][i].topic))) :
            \/ \E t \in DOMAIN call.arg[3].topics :
                   keyword \in ToSet(Split(Lower(call.arg[3].topics[t])))
            \/ keyword \in ToSet(Split(Lower(call.arg[2].h1 \o " "
                                                \o call.arg[2].body_markdown)))}

C26_WholeWordMatch ==
    PlannedInternal
        => LET order == Ascending(WholeWordIdx)
                        \o (IF Cardinality(WholeWordIdx) >= 3 THEN <<>>
                            ELSE SubSeq(Ascending(DOMAIN call.arg[1] \ WholeWordIdx), 1,
                                        3 - Cardinality(WholeWordIdx)))
           IN  \A k \in DOMAIN call.out[1] :
                   k <= Len(order)
                       => call.out[1][k].target_slug = call.arg[1][order[k]].slug

(***************************************************************************)
(* C27.  plan_external_references never returns more than 4 references;    *)
(* given at least 2 search results it returns at least 2, given exactly 1  *)
(* it returns exactly 1, given none it returns the empty list; and entries *)
(* it backfills (those that are not among the selected results) come from  *)
(* results not already used, in rank order, and only until 2 references    *)
(* exist.                                                                  *)
(***************************************************************************)
\* indices of the results line 78 selects: the first 4 with an
\* authoritative domain, or the first 4 of all when none has one
SelectedIdx ==
    LET auth == {i \in DOMAIN call.arg[1] :
                    \E d \in {".com", ".org", ".edu"} : Contains(call.arg[1][i].url, d)}
        pool == IF auth # {} THEN auth ELSE DOMAIN call.arg[1]
    IN  {i \in pool : Cardinality({j \in pool : j < i}) < 4}

C27_ExternalCounts ==
    PlannedExternal
        => /\ Len(call.out[1]) <= 4
           /\ Len(call.arg[1]) >= 2 => Len(call.out[1]) >= 2
           /\ Len(call.arg[1]) = 1 => Len(call.out[1]) = 1
           /\ Len(call.arg[1]) = 0 => call.out[1] = <<>>
           /\ \A k \in DOMAIN call.out[1] :
                  k > Cardinality(SelectedIdx)
                      => /\ k <= 2
                         /\ \E i \in DOMAIN call.arg[1] :
                                /\ call.out[1][k].url = call.arg[1][i].url
                                /\ call.out[1][k].title = call.arg[1][i].title
                                /\ \A j \in 1..(k - 1) :
                                       call.out[1][j].url # call.arg[1][i].url
                                /\ \A h \in 1..(i - 1) :
                                       \E j \in 1..(k - 1) :
                                           call.out[1][j].url = call.arg[1][h].url

\* one authoritative result at rank 3 of 4: it is selected, and the result
\* of rank 1 is backfilled after it
C27_Witness ==
    /\ PlannedExternal
    /\ Len(call.arg[1]) = 4
    /\ SelectedIdx = {3}
    /\ Len(call.out[1]) = 2
    /\ call.out[1][1].url = call.arg[1][3].url
    /\ call.out[1][2].url = call.arg[1][1].url
    /\ call.out[1][2].context_reason = "Useful reference for the topic"

(***************************************************************************)
(* C28.  For each selected search result plan_external_references attaches *)
(* the outline section whose heading + summary word set has the largest    *)
(* non-empty overlap with the word set of the result's title, the earliest *)
(* such section winning ties; when no section overlaps, the first section; *)
(* when the outline has no sections, the label "introduction".  So every   *)
(* returned suggested_section_slug is a slug of the outline or             *)
(* "introduction".                                                         *)
(***************************************************************************)
\* words shared by the title of result i and heading + summary of section n
Shared(i, n) ==
    Cardinality(ToSet(Split(Lower(call.arg[1][i].title)))
                \cap (ToSet(Split(Lower(call.arg[2].sections[n].heading)))
                      \cup ToSet(Split(Lower(call.arg[2].sections[n].summary)))))

C28_BestSection ==
    PlannedExternal
        => /\ \A k \in DOMAIN call.out[1] :
                  k <= Cardinality(SelectedIdx)
                      => LET i == Ascending(SelectedIdx)[k]
                             S == DOMAIN call.arg[2].sections
                             slug == call.out[1][k].suggested_section_slug
                         IN  /\ call.out[1][k].url = call.arg[1][i].url
                             /\ IF S = {} THEN slug = "introduction"
                                ELSE IF \A n \in S : Shared(i, n) = 0
                                THEN slug = call.arg[2].sections[1].slug
                                ELSE \E n \in S :
                                        /\ slug = call.arg[2].sections[n].slug
                                        /\ Shared(i, n) > 0
                                        /\ \A m \in S : Shared(i, m) <= Shared(i, n)
                                        /\ \A m \in S : m < n => Shared(i, m) < Shared(i, n)
           /\ \A k \in DOMAIN call.out[1] :
                  \/ call.out[1][k].suggested_section_slug = "introduction"
                  \/ \E n \in DOMAIN call.arg[2].sections :
                         call.out[1][k].suggested_section_slug = call.arg[2].sections[n].slug

\* the second and the third section share one word with the title, the
\* first none: the second is attached
C28_Witness ==
    /\ PlannedExternal
    /\ Len(call.arg[1]) = 1
    /\ Len(call.arg[2].sections) = 3
    /\ Shared(1, 1) = 0
    /\ Shared(1, 2) = 1
    /\ Shared(1, 3) = 1
    /\ call.out[1][1].suggested_section_slug = call.arg[2].sections[2].slug
    /\ call.out[1][1].context_reason = "Use this when discussing keyword research"

(***************************************************************************)
(* C29.  The validator's level-2 keyword check passes when some level-2    *)
(* heading contains the primary keyword as a case-insensitive substring or *)
(* when at least 50% of the keyword's words occur among that heading's     *)
(* words; it reports a violation when there is at least one level-2        *)
(* heading and none matches, and reports none when the body has no level-2 *)
(* heading.                                                                *)
(* The code lets a keyword without words match nothing: the empty keyword, *)
(* a substring of every heading, draws the violation.                      *)
(***************************************************************************)
\* whether level-2 heading h matches keyword k by the two rules
H2Passes(k, h) ==
    \/ Contains(Lower(h), Lower(k))
    \/ 2 * Cardinality(ToSet(Split(Lower(k))) \cap ToSet(Split(Lower(h))))
           >= Cardinality(ToSet(Split(Lower(k))))

VH2 == _extract_headings(VArticle.body_markdown, 2)

\* the claim as stated
C29_KeywordInH2 ==
    Validated
        => (HasError(VErrors, "not found in any H2 heading")
               <=> /\ Len(VH2) > 0
                   /\ ~\E i \in DOMAIN VH2 : H2Passes(VArticle.seo.primary_keyword, VH2[i]))

\* C29 as amended: the same for a keyword of at least one word; for a
\* keyword without words the check never passes, and the violation is
\* reported whenever there is a level-2 heading
C29_KeywordInH2Amended ==
    Validated
        => (HasError(VErrors, "not found in any H2 heading")
               <=> /\ Len(VH2) > 0
                   /\ \/ Split(VArticle.seo.primary_keyword) = <<>>
                      \/ ~\E i \in DOMAIN VH2 :
                              H2Passes(VArticle.seo.primary_keyword, VH2[i]))

\* no level-2 heading contains the keyword, one of them has one of its two
\* words: the check passes
C29_Witness ==
    /\ Validated
    /\ Len(Split(VArticle.seo.primary_keyword)) = 2
    /\ Len(VH2) = 4
    /\ \A i \in DOMAIN VH2 : ~Contains(Lower(VH2[i]), Lower(VArticle.seo.primary_keyword))
    /\ ~HasError(VErrors, "not found in any H2 heading")

(***************************************************************************)
(* C30.  The only state validate changes is the article's measured         *)
(* (estimated) word count, which it sets to the number of                  *)
(* whitespace-delimited tokens of the body; H1, body, keywords, target,    *)
(* title tag and description, link lists and structured metadata are left  *)
(* as they were; and validate called a second time returns the same list  *)
(* and changes nothing.                                                    *)
(***************************************************************************)
C30_ValidateFrame ==
    Validated
        => /\ call.out[1].article.seo.estimated_word_count = VWords
           /\ call.out[1].article.h1 = VArticle.h1
           /\ call.out[1].article.body_markdown = VArticle.body_markdown
           /\ call.out[1].article.internal_links = VArticle.internal_links
           /\ call.out[1].article.external_references = VArticle.external_references
           /\ call.out[1].article.structured_data = VArticle.structured_data
           /\ \A f \in DOMAIN VArticle.seo :
                  f # "estimated_word_count" => call.out[1].article.seo[f] = VArticle.seo[f]
           /\ DOMAIN call.out[1].article = DOMAIN VArticle
           /\ DOMAIN call.out[1].article.seo = DOMAIN VArticle.seo
           /\ Len(call.out) = 2
                  => /\ call.out[2].errors = call.out[1].errors
                     /\ call.out[2].article = call.out[1].article

\* validate was called twice on an article of 20 words that came with a
\* measured count of 0 and no links
C30_Witness ==
    /\ Validated
    /\ Len(call.out) = 2
    /\ VArticle.seo.estimated_word_count = 0
    /\ VArticle.internal_links = <<>>
    /\ call.out[2].article.seo.estimated_word_count = 20
    /\ call.out[2].errors # <<>>

(***************************************************************************)
(* C31.  The draft stage assembles the article with empty internal-link    *)
(* and external-reference lists and that is what is persisted after the    *)
(* draft stage; a link list of the persisted article becomes non-empty     *)
(* only in the step in which the validation stage returned without         *)
(* raising; and a validation stage that raises leaves the article snapshot *)
(* as it was, its link lists empty.                                        *)
(***************************************************************************)
\* whether the article snapshot of row j has an entry in a link list
HasLinks(j) ==
    /\ ~IsNone(j.article_json)
    /\ \/ LoadJson(TheVal(j.article_json)).internal_links # <<>>
       \/ LoadJson(TheVal(j.article_json)).external_references # <<>>

C31_LinksOnlyAfterValidation ==
    [][/\ (R1.pc = "DraftAgent" /\ IsNone(R1.ctx.article) /\ R1'.pc = "ValidationAgent")
           => /\ ~IsNone(job'.article_json)
              /\ job'.article_json = Some(DumpJson(TheVal(R1'.ctx.article)))
              /\ ~HasLinks(job')
       /\ (HasLinks(job') /\ ~HasLinks(job))
           => /\ R1.pc = "ValidationAgent"
              /\ R1'.pc = "finalize"
              /\ Occurs("validate", R1'.log)
       /\ (R1.pc = "ValidationAgent" /\ R1'.result = "raised")
           => /\ job'.status = "failed"
              /\ job'.article_json = job.article_json
              /\ ~IsNone(job'.article_json)
              /\ ~HasLinks(job')]_vars

\* the validator turned the article down after the planner had given it
\* links: the row is failed and its article snapshot has none
C31_Witness ==
    /\ job.status = "failed"
    /\ R1.result = "raised"
    /\ Contains(R1.error, "SEO validation failed:")
    /\ Occurs("plan_internal_links", R1.log)
    /\ Occurs("plan_external_references", R1.log)
    /\ ~IsNone(job.article_json)
    /\ LoadJson(TheVal(job.article_json)).internal_links = <<>>
    /\ LoadJson(TheVal(job.article_json)).external_references = <<>>

(***************************************************************************)
(* C32.  Snapshots are monotone: a search-results, analysis, outline or    *)
(* article snapshot that is non-null is not reset to null by any runner    *)
(* step, and, runner invocations being executed one at a time, the         *)
(* search-results, analysis and outline snapshots keep the value they were *)
(* first persisted with.                                                   *)
(***************************************************************************)
C32_SnapshotsMonotone ==
    [][/\ ~IsNone(job.serp_results_json) => job'.serp_results_json = job.serp_results_json
       /\ ~IsNone(job.serp_analysis_json) => job'.serp_analysis_json = job.serp_analysis_json
       /\ ~IsNone(job.outline_json) => job'.outline_json = job.outline_json
       /\ ~IsNone(job.article_json) => ~IsNone(job'.article_json)]_vars

\* a second invocation wrote the three snapshots again, as it found them,
\* and then gave the article snapshot another value
C32_Witness ==
    /\ ninv = 2
    /\ Occurs("write:serp_results", R1.log)
    /\ Occurs("write:serp_analysis", R1.log)
    /\ Occurs("write:outline", R1.log)
    /\ ~Occurs("search", R1.log)
    /\ ~IsNone(R1.seen.article_json)
    /\ job.serp_results_json = R1.seen.serp_results_json
    /\ job.serp_analysis_json = R1.seen.serp_analysis_json
    /\ job.outline_json = R1.seen.outline_json
    /\ job.article_json # R1.seen.article_json
    /\ ~IsNone(job.article_json)

(***************************************************************************)
(* C33.  In every reachable state of a job the persisted snapshots are     *)
(* prefix-closed in stage order: the article snapshot is non-null only if  *)
(* the outline snapshot is, the outline snapshot only if the analysis      *)
(* snapshot is, and the analysis snapshot only if the search-results       *)
(* snapshot is.                                                            *)
(* After a search that returned no result the row gets no search-results   *)
(* snapshot, and the analysis stage, which does not ask for search         *)
(* results, still produces an analysis that is persisted.                  *)
(***************************************************************************)
C33_SnapshotsPrefixClosed ==
    /\ ~IsNone(job.article_json) => ~IsNone(job.outline_json)
    /\ ~IsNone(job.outline_json) => ~IsNone(job.serp_analysis_json)
    /\ ~IsNone(job.serp_analysis_json) => ~IsNone(job.serp_results_json)

(***************************************************************************)
(* C34.  With runner invocations executed one at a time, the error message *)
(* and the status agree in every reachable state: the job has a non-null   *)
(* error message if and only if its status is failed; a pending, running   *)
(* or completed job carries none.                                          *)
(***************************************************************************)
C34_ErrorIffFailed ==
    /\ ~IsNone(job.error_message) <=> job.status = "failed"
    /\ job.status \in {"pending", "running", "completed"} => IsNone(job.error_message)

\* the first invocation crashed with the job running, the second one failed
\* in the outline stage: the row is failed and carries that error
C34_Witness ==
    /\ ninv = 2
    /\ R1.seen.status = "running"
    /\ IsNone(R1.seen.error_message)
    /\ R1.result = "raised"
    /\ job.status = "failed"
    /\ job.error_message = Some("Outline must have at least 3 H2 sections, found 2")

(***************************************************************************)
(* The submit-job operation with a store whose writes may raise.           *)
(* create_article_job creates the row, calls process_job inside a          *)
(* try/except that swallows whatever it raises, reads the row back and     *)
(* returns it.  Each store write of process_job (db.commit in              *)
(* update_job_status_and_data) either commits or raises and leaves the row *)
(* as it was.  The write of line 36 stands before the try, so its exception*)
(* leaves process_job at once; an exception of any later write is caught   *)
(* by the except block, whose own write may raise as well.  call holds the *)
(* request: fn "create_article_job", arg the input, out the record         *)
(* returned once there is one.  Log entries "write!:..." are writes that   *)
(* raised.  Before the request the store has no row (job holds NoRow).     *)
(***************************************************************************)
\* the text of the exception a store write raises
StoreError == "database is locked"

\* routes._job_to_response
_job_to_response(j) ==
    [id |-> JobId,
     input |-> [topic |-> j.topic, target_word_count |-> j.target_word_count,
                language |-> j.language],
     status |-> j.status,
     error |-> j.error_message,
     serp_results |-> IF IsNone(j.serp_results_json) THEN None
                      ELSE Some(LoadJson(TheVal(j.serp_results_json))),
     serp_analysis |-> IF IsNone(j.serp_analysis_json) THEN None
                       ELSE Some(LoadJson(TheVal(j.serp_analysis_json))),
     outline |-> IF IsNone(j.outline_json) THEN None
                 ELSE Some(LoadJson(TheVal(j.outline_json))),
     article |-> IF IsNone(j.article_json) THEN None
                 ELSE Some(LoadJson(TheVal(j.article_json)))]

FInit ==
    /\ job = NoRow
    /\ run = [r \in Runners |-> IdleRunner]
    /\ ninv = 0
    /\ call = NoCall

\* create_article_job lines 48-51: create the row and enter process_job
Submit ==
    /\ call = NoCall
    /\ ninv = 0
    /\ \E job_input \in JobInputs :
           /\ job' = create_job(job_input)
           /\ call' = [fn |-> "create_article_job", arg |-> <<job_input>>, out |-> <<>>]
           /\ run' = [run EXCEPT !["r1"] = Lookup(JobId, Some(create_job(job_input)))]
    /\ ninv' = 1

\* create_article_job lines 52-59: whatever process_job did, read the row
\* back and return it
Respond ==
    /\ call.fn = "create_article_job"
    /\ call.out = <<>>
    /\ ninv = 1
    /\ run["r1"].pc = "idle"
    /\ run["r1"].result \in {"returned", "raised"}
    /\ call' = [call EXCEPT !.out = <<_job_to_response(TheVal(get_job(JobId)))>>]
    /\ UNCHANGED <<job, run, ninv>>

\* process_job called again on the job, once the request is over
FBegin(r) ==
    /\ run[r].pc = "idle"
    /\ call.fn = "create_article_job"
    /\ call.out # <<>> \/ run[r].result = "crashed"
    /\ ninv < MaxInvocations
    /\ ninv' = ninv + 1
    /\ run' = [run EXCEPT ![r] = Lookup(JobId, get_job(JobId))]
    /\ UNCHANGED <<job, call>>

\* line 36 with a write that may raise: outside the try, nothing catches it
FStart(r) ==
    /\ run[r].pc = "start"
    /\ \E committed \in BOOLEAN :
           IF committed
           THEN /\ job' = update_job_status_and_data(job, "running", None, None, None,
                                                       None, None)
                /\ run' = [run EXCEPT ![r].pc = build_pipeline[1],
                                      ![r].ctx = Rehydrate(job'),
                                      ![r].log = <<"write:running">>]
           ELSE /\ job' = job
                /\ run' = [run EXCEPT ![r].pc = "idle",
                                      ![r].ctx = NoCtx,
                                      ![r].result = "raised",
                                      ![r].error = StoreError,
                                      ![r].log = <<"write!:running">>]
    /\ UNCHANGED <<ninv, call>>

\* the except block of lines 105-111 for exception e, its write committing
\* or raising in its turn
FExcept(r, e, entries, committed) ==
    /\ job' = IF committed THEN FailJob(job, e) ELSE job
    /\ run' = [run EXCEPT
                  ![r].pc = "idle",
                  ![r].ctx = NoCtx,
                  ![r].result = "raised",
                  ![r].error = IF committed THEN e ELSE StoreError,
                  ![r].log = @ \o entries
                               \o <<IF committed THEN "write:failed" ELSE "write!:failed">>]

\* one turn of the loop of lines 70-101, the snapshot write committing
\* (saved) or raising
FLoopTurn(r, agent, res, saved, committed) ==
    /\ run[r].pc = agent
    /\ IF res.ok /\ (saved \/ PersistLog(agent, res.ctx) = <<>>)
       THEN /\ job' = PersistAfter(job, agent, res.ctx)
            /\ run' = [run EXCEPT
                          ![r].pc = NextPc(agent),
                          ![r].ctx = res.ctx,
                          ![r].log = @ \o <<"run:" \o agent>> \o res.log
                                       \o PersistLog(agent, res.ctx)]
       ELSE IF res.ok
       THEN FExcept(r, StoreError,
                    <<"run:" \o agent>> \o res.log \o <<"write!:snapshot">>, committed)
       ELSE FExcept(r, res.error, <<"run:" \o agent>> \o res.log, committed)
    /\ UNCHANGED <<ninv, call>>

\* the four stages that call a provider, the provider answering with one
\* good value or one failure of each kind the stage tells apart
FRun(r) ==
    \E saved \in BOOLEAN, committed \in BOOLEAN :
        \/ \E raw \in {x \in SearchRaw : x.fails \/ x.organic_results = Organic(2, ".com")} :
               FLoopTurn(r, "SERPAgent", SERPAgent_run(run[r].ctx, raw), saved, committed)
        \/ \E raw \in {x \in AnalysisRaw :
                          \/ x.kind = "api_error"
                          \/ x.kind = "ok" /\ x.content.primary_keyword = Some("seo tips")} :
               FLoopTurn(r, "SERPAnalysisAgent", SERPAnalysisAgent_run(run[r].ctx, raw),
                         saved, committed)
        \/ \E raw \in {x \in OutlineRaw :
                          \/ x.kind = "bad_json"
                          \/ x.kind = "ok" /\ x.content.sections
                                                \in {<<H2a, H2b, H2c>>, <<H1a, H2a, H2b>>}} :
               FLoopTurn(r, "OutlineAgent", OutlineAgent_run(run[r].ctx, raw),
                         saved, committed)
        \/ \E raw_text \in TextRaw,
              raw_seo \in {x \in SeoRaw :
                              \/ x.kind = "api_error"
                              \/ x.kind = "ok" /\ ~IsNone(x.content.title_tag)} :
               FLoopTurn(r, "DraftAgent", DraftAgent_run(run[r].ctx, raw_text, raw_seo),
                         saved, committed)

\* the validation stage, which calls no provider
FValidate(r) ==
    \E saved \in BOOLEAN, committed \in BOOLEAN :
        FLoopTurn(r, "ValidationAgent", ValidationAgent_run(run[r].ctx), saved, committed)

\* the end of the loop without the write of line 103
FFinalize_noWrite(r) ==
    /\ run[r].pc = "finalize"
    /\ job' = job
    /\ run' = [run EXCEPT ![r].pc = "idle",
                          ![r].ctx = NoCtx,
                          ![r].result = "returned"]
    /\ UNCHANGED <<ninv, call>>

\* line 103 with a write that may raise, inside the try
FFinalize(r) ==
    /\ run[r].pc = "finalize"
    /\ \E saved \in BOOLEAN, committed \in BOOLEAN :
           IF saved
           THEN /\ job' = CompleteJob(job, run[r].ctx)
                /\ run' = [run EXCEPT ![r].pc = "idle",
                                      ![r].ctx = NoCtx,
                                      ![r].result = "returned",
                                      ![r].log = @ \o <<"write:completed">>]
           ELSE FExcept(r, StoreError, <<"write!:completed">>, committed)
    /\ UNCHANGED <<ninv, call>>

FNext ==
    \/ Submit
    \/ Respond
    \/ FBegin("r1")
    \/ FStart("r1")
    \/ FRun("r1")
    \/ FValidate("r1")
    \/ FFinalize("r1")
    \/ Crash("r1")

\* process_job is synchronous: once every call it makes returns, its next
\* step is taken, and so is the return of the request; nothing obliges a
\* caller to invoke it again, and a process may die at any point.  The
\* condition on the validation stage is WF_vars(FValidate("r1")) written on
\* the state: FValidate is enabled exactly while pc is "ValidationAgent" and
\* every FValidate step leaves that pc.
FSpec ==
    /\ FInit
    /\ [][FNext]_vars
    /\ WF_vars(FStart("r1"))
    /\ WF_vars(FRun("r1"))
    /\ []<>(run["r1"].pc # "ValidationAgent")
    /\ WF_vars(FFinalize("r1"))
    /\ WF_vars(Respond)

\* the invocation made a write of the running status or of the failure that
\* raised
WriteLost == Occurs("write!:running", R1.log) \/ Occurs("write!:failed", R1.log)

====
